---- MODULE Spec2Model ----
(***************************************************************************)
(* ContextFlow: the workflow-compliance validator (WorkflowManager), the   *)
(* session update flow (SessionUpdater.update_session_documentation, the   *)
(* CLI `update` command), the session log store, the summary parser       *)
(* (parse_session_summary) and the log pruning (cleanup_old_logs).         *)
(*                                                                         *)
(* Text is a sequence of one-character strings, so that the regular        *)
(* expressions and substring tests of the code are computed character by   *)
(* character.                                                              *)
(*                                                                         *)
(* Thirteen specifications share the variables:                            *)
(*   ValidatorSpec   validate_session_update and                           *)
(*                   enforce_workflow_compliance applied to bounded texts; *)
(*   Spec            one invocation of the `update` command, step by step; *)
(*   LogStoreSpec    the log directory over successive session updates;    *)
(*   ParserSpec      parse_session_summary applied to bounded texts, once  *)
(*                   and again, and the record written from the result;    *)
(*   AgreementSpec   the validator and the parser on the same text;        *)
(*   PruneSpec       cleanup_old_logs over a bounded log directory;        *)
(*   MaintenanceSpec cleanup_old_logs called again and again, and the      *)
(*                   maintenance status;                                   *)
(*   StatisticsSpec  the two session statistics over appends and a prune;  *)
(*   ListingSpec     the `logs` command;                                   *)
(*   CleanupSpec     two invocations of cleanup_old_logs at the same time; *)
(*   RaceSpec        two invocations writing their session log at the same *)
(*                   time;                                                 *)
(*   ContextSpec     the quick and the full context view of one gathering; *)
(*   SetupSpec       the `setup` command.                                  *)
(***************************************************************************)
EXTENDS Integers, Sequences, FiniteSets, TLC

\* ------------------------------------------------------------------ bounds

\* Longest summary of the validator specification, in fragments.
MaxFrags == 3

\* ------------------------------------------------------- character classes

UpperLetters == <<"A","B","C","D","E","F","G","H","I","J","K","L","M",
                  "N","O","P","Q","R","S","T","U","V","W","X","Y","Z">>

LowerLetters == <<"a","b","c","d","e","f","g","h","i","j","k","l","m",
                  "n","o","p","q","r","s","t","u","v","w","x","y","z">>

Digits == {"0","1","2","3","4","5","6","7","8","9"}

\* str.strip() with no argument strips these (the ASCII whitespace of the alphabet).
Whitespace == {" ", "\n", "\t", "\r"}

Range(s) == {s[i] : i \in DOMAIN s}

Letters == Range(UpperLetters) \cup Range(LowerLetters)

\* \w of the re module on the ASCII alphabet.
WordChars == Letters \cup Digits \cup {"_"}

IsUpper(c) == c \in Range(UpperLetters)

IsLetter(c) == c \in Letters

IsWord(c) == c \in WordChars

\* str.lower() of one character.
LowerChar(c) ==
    IF IsUpper(c)
    THEN LowerLetters[CHOOSE i \in DOMAIN UpperLetters : UpperLetters[i] = c]
    ELSE c

\* str.lower()
Lower(t) == [i \in DOMAIN t |-> LowerChar(t[i])]

\* ---------------------------------------------------------- text searching

\* The literal w occurs in t at position i.
LitAt(t, i, w) ==
    /\ i >= 1
    /\ i + Len(w) - 1 <= Len(t)
    /\ \A k \in 1..Len(w) : t[i + k - 1] = w[k]

\* The literal w occurs in t at position i, letters compared without case
\* (a literal under re.IGNORECASE).
LitAtNoCase(t, i, w) == LitAt(Lower(t), i, Lower(w))

\* `word in text`
Contains(t, w) == \E i \in 1..(Len(t) + 1) : LitAt(t, i, w)

\* The last position of the longest run of characters of the class that
\* starts at i (i - 1 when t[i] is not of the class): a greedy `+`.
RECURSIVE RunEnd(_, _, _)
RunEnd(t, i, class) ==
    IF i <= Len(t) /\ t[i] \in class THEN RunEnd(t, i + 1, class) ELSE i - 1

IsDigit(c) == c \in Digits

\* str.strip(): t without its leading and trailing whitespace.
Strip(t) ==
    LET nonWs == {i \in DOMAIN t : t[i] \notin Whitespace}
    IN  IF nonWs = {} THEN <<>>
        ELSE LET lo == CHOOSE i \in nonWs : \A j \in nonWs : i <= j
                 hi == CHOOSE i \in nonWs : \A j \in nonWs : i >= j
             IN  SubSeq(t, lo, hi)

\* ------------------------------------------- WorkflowManager: the patterns
ActionWords == {
    <<"i","m","p","l","e","m","e","n","t","e","d">>,
    <<"a","d","d","e","d">>,
    <<"c","r","e","a","t","e","d">>,
    <<"b","u","i","l","t">>,
    <<"d","e","v","e","l","o","p","e","d">>,
    <<"f","i","x","e","d">>,
    <<"r","e","s","o","l","v","e","d">>,
    <<"c","o","r","r","e","c","t","e","d">>,
    <<"r","e","p","a","i","r","e","d">>,
    <<"u","p","d","a","t","e","d">>,
    <<"m","o","d","i","f","i","e","d">>,
    <<"c","h","a","n","g","e","d">>,
    <<"i","m","p","r","o","v","e","d">>,
    <<"r","e","f","a","c","t","o","r","e","d">>,
    <<"o","p","t","i","m","i","z","e","d">>,
    <<"e","n","h","a","n","c","e","d">>,
    <<"t","e","s","t","e","d">>,
    <<"v","a","l","i","d","a","t","e","d">>,
    <<"v","e","r","i","f","i","e","d">>,
    <<"d","o","c","u","m","e","n","t","e","d">>,
    <<"w","r","o","t","e">>,
    <<"d","r","a","f","t","e","d">>}

\* The work-item patterns, in the order of the list (workflow_manager.py and
\* session_updater.py hold the same list).
WorkItemPatterns == <<"jira", "hash", "issue", "task">>

KeywordIssue == <<"i","s","s","u","e","-">>

KeywordTask == <<"t","a","s","k","-">>

\* [A-Z]: under re.IGNORECASE a lowercase letter matches too.
ClassAZ(ignoreCase) == IF ignoreCase THEN Letters ELSE Range(UpperLetters)

\* The end of \d+ matched at position i, 0 when t[i] is no digit.
DigitsEnd(t, i) ==
    IF i >= 1 /\ i <= Len(t) /\ IsDigit(t[i]) THEN RunEnd(t, i, Digits) ELSE 0

\* The end of the match of work-item pattern p at position i of t, 0 when it
\* does not match there.  Greedy runs need no backtracking here: the character
\* that must follow a run is never in the run's class.
WorkItemMatchEnd(p, t, i, ignoreCase) ==
    CASE p = "jira" ->
            LET a == RunEnd(t, i, ClassAZ(ignoreCase))
            IN  IF a >= i /\ a + 1 <= Len(t) /\ t[a + 1] = "-"
                THEN DigitsEnd(t, a + 2)
                ELSE 0
      [] p = "hash" ->
            IF LitAt(t, i, <<"#">>) THEN DigitsEnd(t, i + 1) ELSE 0
      [] p = "issue" ->
            IF (IF ignoreCase THEN LitAtNoCase(t, i, KeywordIssue)
                              ELSE LitAt(t, i, KeywordIssue))
            THEN DigitsEnd(t, i + Len(KeywordIssue)) ELSE 0
      [] p = "task" ->
            IF (IF ignoreCase THEN LitAtNoCase(t, i, KeywordTask)
                              ELSE LitAt(t, i, KeywordTask))
            THEN DigitsEnd(t, i + Len(KeywordTask)) ELSE 0

\* Variant of HasWorkItemReferences: the patterns are searched without
\* re.IGNORECASE.
HasWorkItemReferencesCaseSensitive(text) ==
    \E k \in DOMAIN WorkItemPatterns : \E i \in 1..Len(text) :
        WorkItemMatchEnd(WorkItemPatterns[k], text, i, FALSE) > 0

\* WorkflowManager._has_work_item_references: re.search of each pattern with
\* re.IGNORECASE.
HasWorkItemReferences(text) ==
    \E k \in DOMAIN WorkItemPatterns : \E i \in 1..Len(text) :
        WorkItemMatchEnd(WorkItemPatterns[k], text, i, TRUE) > 0

\* WorkflowManager._has_action_words
HasActionWords(text) == \E w \in ActionWords : Contains(Lower(text), w)

\* The directory prefixes of the validator's file patterns.
FilePrefixes == {<<"s","r","c","/">>,
                 <<"l","i","b","/">>,
                 <<"c","o","m","p","o","n","e","n","t","s","/">>,
                 <<"p","a","g","e","s","/">>}

\* The end of the match of \w+\.\w+ at position i, 0 when there is none.
DotFileMatchEnd(t, i) ==
    LET a == RunEnd(t, i, WordChars)
    IN  IF /\ a >= i
           /\ a + 2 <= Len(t)
           /\ t[a + 1] = "."
           /\ IsWord(t[a + 2])
        THEN RunEnd(t, a + 2, WordChars)
        ELSE 0

\* The end of the match of <prefix>\w+ at position i, 0 when there is none.
PrefixFileMatchEnd(t, i, prefix) ==
    IF /\ LitAt(t, i, prefix)
       /\ i + Len(prefix) <= Len(t)
       /\ IsWord(t[i + Len(prefix)])
    THEN RunEnd(t, i + Len(prefix), WordChars)
    ELSE 0

\* WorkflowManager._has_file_references: re.search of each pattern, no flags.
HasFileReferences(text) ==
    \/ \E i \in 1..Len(text) : DotFileMatchEnd(text, i) > 0
    \/ \E prefix \in FilePrefixes : \E i \in 1..Len(text) :
           PrefixFileMatchEnd(text, i, prefix) > 0

\* ------------------------------------- WorkflowManager: validation messages

ErrWorkItems == "Work item references are required but none found."

WarnShort == "Session summary is very short."

SuggestActionWords == "Consider including action words."

SuggestFiles == "Consider mentioning specific files."

\* `len(session_summary.strip()) < 20`
MinSummaryLength == 20

\* Variant of validate_session_update: the length warning also turns `valid`
\* False.
ValidateShortInvalid(session_summary, requireWorkItems) ==
    LET missing == requireWorkItems /\ ~HasWorkItemReferences(session_summary)
        short   == Len(Strip(session_summary)) < MinSummaryLength
    IN  [valid       |-> ~missing /\ ~short,
         errors      |-> IF missing THEN <<ErrWorkItems>> ELSE <<>>,
         warnings    |-> IF short THEN <<WarnShort>> ELSE <<>>,
         suggestions |->
             (IF ~HasActionWords(session_summary)
              THEN <<SuggestActionWords>> ELSE <<>>)
             \o (IF ~HasFileReferences(session_summary)
                 THEN <<SuggestFiles>> ELSE <<>>)]

\* Variant of validate_session_update: it returns at the failed work-item
\* rule, the later checks are skipped.
ValidateShortCircuit(session_summary, requireWorkItems) ==
    LET missing == requireWorkItems /\ ~HasWorkItemReferences(session_summary)
    IN  IF missing
        THEN [valid |-> FALSE, errors |-> <<ErrWorkItems>>,
              warnings |-> <<>>, suggestions |-> <<>>]
        ELSE [valid       |-> TRUE,
              errors      |-> <<>>,
              warnings    |->
                  IF Len(Strip(session_summary)) < MinSummaryLength
                  THEN <<WarnShort>> ELSE <<>>,
              suggestions |->
                  (IF ~HasActionWords(session_summary)
                   THEN <<SuggestActionWords>> ELSE <<>>)
                  \o (IF ~HasFileReferences(session_summary)
                      THEN <<SuggestFiles>> ELSE <<>>)]

\* WorkflowManager.validate_session_update, the four checks in the order of
\* the code; `valid` turns False only beside the appended error.
validate_session_update(session_summary, requireWorkItems) ==
    LET missing == requireWorkItems /\ ~HasWorkItemReferences(session_summary)
    IN  [valid       |-> ~missing,
         errors      |-> IF missing THEN <<ErrWorkItems>> ELSE <<>>,
         warnings    |->
             IF Len(Strip(session_summary)) < MinSummaryLength
             THEN <<WarnShort>> ELSE <<>>,
         suggestions |->
             (IF ~HasActionWords(session_summary)
              THEN <<SuggestActionWords>> ELSE <<>>)
             \o (IF ~HasFileReferences(session_summary)
                 THEN <<SuggestFiles>> ELSE <<>>)]

\* Nothing surfaced to the notification channel (the console).
NoNotification == [errors |-> <<>>, warnings |-> <<>>, suggestions |-> <<>>]

\* Variant of enforce_workflow_compliance: the mandatory_session_updates test
\* is missing.
EnforceIgnoringMandatory(session_summary, mandatoryUpdates, requireWorkItems) ==
    LET v == validate_session_update(session_summary, requireWorkItems)
    IN  IF ~v.valid
        THEN [ret |-> FALSE, validations |-> 1,
              notified |-> [NoNotification EXCEPT !.errors = v.errors]]
        ELSE [ret |-> TRUE, validations |-> 1,
              notified |-> [NoNotification EXCEPT
                                !.warnings = v.warnings,
                                !.suggestions = v.suggestions]]

\* Variant of enforce_workflow_compliance: a rejected summary is refused
\* without printing its errors.
EnforceSilentOnReject(session_summary, mandatoryUpdates, requireWorkItems) ==
    IF ~mandatoryUpdates
    THEN [ret |-> TRUE, validations |-> 0, notified |-> NoNotification]
    ELSE LET v == validate_session_update(session_summary, requireWorkItems)
         IN  IF ~v.valid
             THEN [ret |-> FALSE, validations |-> 1, notified |-> NoNotification]
             ELSE [ret |-> TRUE, validations |-> 1,
                   notified |-> [NoNotification EXCEPT
                                     !.warnings = v.warnings,
                                     !.suggestions = v.suggestions]]

\* WorkflowManager.enforce_workflow_compliance: what it returns, what it
\* prints, and how many times it ran validate_session_update.
enforce_workflow_compliance(session_summary, mandatoryUpdates, requireWorkItems) ==
    IF ~mandatoryUpdates
    THEN [ret |-> TRUE, validations |-> 0, notified |-> NoNotification]
    ELSE LET v == validate_session_update(session_summary, requireWorkItems)
         IN  IF ~v.valid
             THEN [ret |-> FALSE, validations |-> 1,
                   notified |-> [NoNotification EXCEPT !.errors = v.errors]]
             ELSE [ret |-> TRUE, validations |-> 1,
                   notified |-> [NoNotification EXCEPT
                                     !.warnings = v.warnings,
                                     !.suggestions = v.suggestions]]

\* ------------------------------------------------------------------ inputs

\* The two summaries of the specification's examples.
ExampleShort == <<"s","h","o","r","t">>

ExampleLong ==
    <<"I","m","p","l","e","m","e","n","t","e","d"," ","P","R","O","J","-","4","2"," ","f","i","x"," ","i","n"," ">> \o
    <<"s","r","c","/","a","p","p",".","p","y"," ","w","i","t","h"," ","f","u","l","l"," ","t","e","s","t"," ","c","o","v","e","r","a","g","e">>

\* Eighteen characters of plain words and a trailing blank: no work item, no
\* action word, no file.
FragPlain == <<"p","l","a","i","n"," ","w","o","r","d","s"," ","i","n"," ","u","s","e"," ">>

\* The fragments summaries are built from: plain text, a word character, a
\* blank, an action word in capitals, a hash reference, a lowercase
\* letters-hyphen-digits key, a file name, a directory prefix and a dot.
Fragments ==
    {FragPlain, <<"x">>, <<" ">>, <<"F","i","x","e","d">>, <<"#","4">>,
     <<"a","b","-","1">>, <<"a",".","p","y">>, <<"s","r","c","/">>, <<".">>}

RECURSIVE Concat(_)
Concat(fs) == IF fs = <<>> THEN <<>> ELSE Head(fs) \o Concat(Tail(fs))

\* Every summary of at most MaxFrags fragments, and the two examples.
Texts ==
    {Concat(fs) : fs \in UNION {[1..n -> Fragments] : n \in 0..MaxFrags}}
    \cup {ExampleShort, ExampleLong}

\* ------------------------------------------------------------------- state

VARIABLES
    summary,         \* the session summary given to the call in progress
    mandatory,       \* config.workflow.mandatory_session_updates
    requireWI,       \* config.workflow.require_work_item_references
    vpc,             \* validator calls: "input", "validated" or "enforced"
    validation,      \* what validate_session_update returned
    enforcement,     \* what enforce_workflow_compliance returned and printed
    pc,              \* position of the `update` command
    autoRefresh,     \* config.ai_context.auto_refresh
    adapterStatus,   \* per adapter: "disabled", "init_failed" or "ready"
    integrations,    \* SessionUpdater.integrations, in insertion order
    idx,             \* position of the fan-out loop in integrations
    calls,           \* per adapter: update_from_session calls of this run
    raised,          \* the adapters whose update_from_session raised
    successCount,    \* success_count
    updates,         \* the parsed update of this run
    logs,            \* the session log directory: file name -> record
    clock,           \* datetime.now(), in ticks
    result,          \* what update_session_documentation returned
    exitCode,        \* exit status of the command, -1 while it runs
    runs,            \* invocations of update_session_documentation so far
    logOutcome,      \* how create_session_log ended in this run
    refreshOutcome,  \* how refresh_ai_context ended in this run
    appendHist,      \* the create_session_log calls that opened the file
    ppc,             \* parser calls: "input", "parsed", "reparsed", "logged"
    previous,        \* what the parse_session_summary call before returned
    prpc,            \* cleanup_old_logs: "idle", "loop", "returned", "raised"
    autoArchive,     \* config.workflow.auto_archive_logs
    logDirExists,    \* the session log directory exists
    logDir,          \* its session_*.md files: name -> [mtime, body]
    logDirBefore,    \* logDir when cleanup_old_logs was called
    archive,         \* the files under archive/: <<month, name>> -> file
    archiveMonth,    \* strftime("%Y-%m") of the clock in cleanup_old_logs
    oldLogs,         \* old_logs, the part the loop has still to process
    cleaned,         \* the local `cleaned`
    archived,        \* the local `archived`
    errors,          \* the local `errors`: the names of the files that failed
    pruneResult,     \* what cleanup_old_logs returned
    rpc,             \* two create_session_log calls at once: where each is
    rname,           \* the log file name each of them computed
    rlen,            \* the length of the record each of them writes
    rpos,            \* the file offset of each of them
    raceDir,         \* the log directory they write to: name -> content
    spc,             \* the `setup` command: "idle", "prompting" or "done"
    integration,     \* the name given to `setup`
    pending,         \* the credential types still to be prompted for
    prompted,        \* the credentials prompted for: <<integration, type>>
    keyring,         \* the credentials in the keyring: <<integration, type>>
    keyringBefore,   \* the keyring when `setup` was called
    setupExit,       \* exit status of `setup`, -1 while it runs
    setupOutput,     \* what `setup` printed last
    query,           \* the last query of the log directory and its answer
    previousPrune,   \* what the cleanup_old_logs call before returned
    pruneCalls,      \* cleanup_old_logs calls so far
    logsAppended,    \* session logs written since the start
    cpc,             \* two cleanup_old_logs calls at once: where each is
    cTodo,           \* the files glob gave each of them, not looked at yet
    cOld,            \* old_logs of each of them, not processed yet
    cMonth,          \* the month of the archive directory of each of them
    cResult,         \* cleaned, archived and errors of each of them
    context          \* the context gathered last and the two views of it

policyVars == <<summary, mandatory, requireWI>>

validatorVars == <<vpc, validation, enforcement>>

flowVars ==
    <<pc, autoRefresh, adapterStatus, integrations, idx, calls, raised,
      successCount, updates, logs, clock, result, exitCode, runs, logOutcome,
      refreshOutcome, appendHist>>

parserVars == <<ppc, previous>>

pruneVars ==
    <<prpc, autoArchive, logDirExists, logDir, logDirBefore, archive,
      archiveMonth, oldLogs, cleaned, archived, errors, pruneResult>>

raceVars == <<rpc, rname, rlen, rpos, raceDir>>

setupVars ==
    <<spc, integration, pending, prompted, keyring, keyringBefore, setupExit,
      setupOutput>>

queryVars == <<query, previousPrune, pruneCalls, logsAppended>>

cleanupVars == <<cpc, cTodo, cOld, cMonth, cResult>>

contextVars == <<context>>

otherVars == <<setupVars, queryVars, cleanupVars, contextVars>>

toolVars == <<parserVars, pruneVars, raceVars, otherVars>>

vars == <<policyVars, validatorVars, flowVars, toolVars>>

\* ------------------------------------------------------------ the validator

NoValidation ==
    [valid |-> TRUE, errors |-> <<>>, warnings |-> <<>>, suggestions |-> <<>>]

NoEnforcement == [ret |-> TRUE, validations |-> 0, notified |-> NoNotification]

ValidatorIdle ==
    /\ vpc = "input"
    /\ validation = NoValidation
    /\ enforcement = NoEnforcement

\* A caller runs validate_session_update on the summary.
ValidateCall ==
    /\ vpc = "input"
    /\ validation' = validate_session_update(summary, requireWI)
    /\ vpc' = "validated"
    /\ UNCHANGED <<enforcement, policyVars, flowVars, toolVars>>

\* A caller runs enforce_workflow_compliance on the summary.
EnforceCall ==
    /\ vpc = "input"
    /\ enforcement' = enforce_workflow_compliance(summary, mandatory, requireWI)
    /\ vpc' = "enforced"
    /\ UNCHANGED <<validation, policyVars, flowVars, toolVars>>

\* ------------------------------------------------------- the update command

\* Ticks of the clock per second: datetime.now() is finer than the second of
\* the log file's name.
TicksPerSecond == 2

\* The clock advances at most this many ticks.
MaxElapsed == 2

\* Session updates made on one log directory, one after the other.
MaxRuns == 2

\* %M%S of strftime: sixty seconds to the minute.
SecondsPerMinute == 60

\* The clock starts in the last second of a minute.
StartTick == (SecondsPerMinute - 1) * TicksPerSecond

MaxTick == StartTick + MaxElapsed

\* The integrations SessionUpdater knows, in the order it initialises them.
Adapters == <<"confluence", "jira", "github">>

AdapterSet == Range(Adapters)

AdapterStatuses == {"disabled", "init_failed", "ready"}

\* The summaries given to the command: one with no work item, one with a
\* work item, an action word and a file.
FlowSummaries == {ExampleShort, ExampleLong}

NoUpdates ==
    [summary               |-> <<>>,
     timestamp             |-> <<0, 0, 0>>,
     work_items            |-> <<>>,
     files_changed         |-> <<>>,
     features_added        |-> <<>>,
     bugs_fixed            |-> <<>>,
     architecture_changes  |-> <<>>,
     documentation_updates |-> <<>>,
     categories            |-> <<>>]

NoLogs == [n \in {} |-> NoUpdates]

FlowIdle ==
    /\ pc = "idle"
    /\ autoRefresh = TRUE
    /\ adapterStatus = [a \in AdapterSet |-> "disabled"]
    /\ integrations = <<>>
    /\ idx = 1
    /\ calls = [a \in AdapterSet |-> 0]
    /\ raised = {}
    /\ successCount = 0
    /\ updates = NoUpdates
    /\ logs = NoLogs
    /\ clock = StartTick
    /\ result = "none"
    /\ exitCode = -1
    /\ runs = 0
    /\ logOutcome = "none"
    /\ refreshOutcome = "none"
    /\ appendHist = <<>>

ParserIdle ==
    /\ ppc = "input"
    /\ previous = NoUpdates

\* The result cleanup_old_logs returns when there is nothing to do.
NoPruneResult == [cleaned |-> 0, archived |-> 0, errors |-> <<>>]

\* A directory with no files in it.
NoFiles == [n \in {} |-> [mtime |-> 0, body |-> 0]]

PruneIdle ==
    /\ prpc = "idle"
    /\ autoArchive = TRUE
    /\ logDirExists = FALSE
    /\ logDir = NoFiles
    /\ logDirBefore = NoFiles
    /\ archive = NoFiles
    /\ archiveMonth = "none"
    /\ oldLogs = <<>>
    /\ cleaned = 0
    /\ archived = 0
    /\ errors = <<>>
    /\ pruneResult = NoPruneResult

\* The two invocations that run at once.
Invocations == {1, 2}

\* No log file name computed yet.
NoName == <<>>

RaceIdle ==
    /\ rpc = [p \in Invocations |-> "start"]
    /\ rname = [p \in Invocations |-> NoName]
    /\ rlen = [p \in Invocations |-> 1]
    /\ rpos = [p \in Invocations |-> 0]
    /\ raceDir = [n \in {} |-> <<>>]

SetupIdle ==
    /\ spc = "idle"
    /\ integration = ""
    /\ pending = <<>>
    /\ prompted = {}
    /\ keyring = {}
    /\ keyringBefore = {}
    /\ setupExit = -1
    /\ setupOutput = "none"

\* No query of the log directory was made since it was written last.
NoQuery == [op |-> "none"]

QueryIdle ==
    /\ query = NoQuery
    /\ previousPrune = NoPruneResult
    /\ pruneCalls = 0
    /\ logsAppended = 0

\* The two concurrent cleanup_old_logs calls of the model were not made.
CleanupProcs == {1, 2}

CleanupIdle ==
    /\ cpc = [p \in CleanupProcs |-> "start"]
    /\ cTodo = [p \in CleanupProcs |-> <<>>]
    /\ cOld = [p \in CleanupProcs |-> <<>>]
    /\ cMonth = [p \in CleanupProcs |-> "none"]
    /\ cResult = [p \in CleanupProcs |-> NoPruneResult]

\* No context was gathered.
NoContext == [op |-> "none"]

ContextIdle == context = NoContext

OthersIdle == SetupIdle /\ QueryIdle /\ CleanupIdle /\ ContextIdle

ToolsIdle == ParserIdle /\ PruneIdle /\ RaceIdle /\ OthersIdle

SecondOf(tick) == tick \div TicksPerSecond

\* datetime.now().isoformat(): the minute (standing for the date, the hour and
\* the minute), the second and the fraction of the second.
Timestamp(now) ==
    <<SecondOf(now) \div SecondsPerMinute, SecondOf(now) % SecondsPerMinute,
      now % TicksPerSecond>>

\* SessionUpdater._initialize_integrations: an integration enters the dict when
\* it is enabled and its constructor did not raise.
InitializeIntegrations(status) ==
    SelectSeq(Adapters, LAMBDA a : status[a] = "ready")

\* ------------------------------------------------- SessionUpdater: the parser

\* The file patterns of parse_session_summary, in the order of the list:
\* [a-zA-Z0-9/_.-]+\.[a-zA-Z]+, src/[a-zA-Z0-9/_.-]+ and docs/[a-zA-Z0-9/_.-]+.
FilePatterns == <<"ext", "src", "docs">>

\* [a-zA-Z0-9/_.-]
FileChars == Letters \cup Digits \cup {"/", "_", ".", "-"}

PrefixSrc == <<"s","r","c","/">>

PrefixDocs == <<"d","o","c","s","/">>

\* The end of the match of <prefix>[a-zA-Z0-9/_.-]+ at position i, 0 when
\* there is none.
PathMatchEnd(t, i, prefix) ==
    IF /\ LitAt(t, i, prefix)
       /\ i + Len(prefix) <= Len(t)
       /\ t[i + Len(prefix)] \in FileChars
    THEN RunEnd(t, i + Len(prefix), FileChars)
    ELSE 0

\* The end of the match of file pattern p at position i of t, 0 when it does
\* not match there.  The class of the first pattern holds the dot, so its
\* greedy run is given back down to the last dot that a letter follows.
FileMatchEnd(p, t, i) ==
    CASE p = "ext" ->
            LET a == RunEnd(t, i, FileChars)
                dots == {k \in (i + 1)..a :
                            /\ t[k] = "."
                            /\ k + 1 <= Len(t)
                            /\ IsLetter(t[k + 1])}
            IN  IF dots = {} THEN 0
                ELSE RunEnd(t, 1 + (CHOOSE k \in dots : \A m \in dots : m <= k),
                            Letters)
      [] p = "src" -> PathMatchEnd(t, i, PrefixSrc)
      [] p = "docs" -> PathMatchEnd(t, i, PrefixDocs)

\* re.findall(pattern, session_summary, re.IGNORECASE) of a work-item pattern,
\* from position i: the matches from left to right, each search resuming
\* behind the previous match.
RECURSIVE FindAllWorkItems(_, _, _)
FindAllWorkItems(p, t, i) ==
    IF i > Len(t) THEN <<>>
    ELSE LET e == WorkItemMatchEnd(p, t, i, TRUE)
         IN  IF e > 0
             THEN <<SubSeq(t, i, e)>> \o FindAllWorkItems(p, t, e + 1)
             ELSE FindAllWorkItems(p, t, i + 1)

\* re.findall(pattern, session_summary) of a file pattern, from position i.
RECURSIVE FindAllFiles(_, _, _)
FindAllFiles(p, t, i) ==
    IF i > Len(t) THEN <<>>
    ELSE LET e == FileMatchEnd(p, t, i)
         IN  IF e > 0
             THEN <<SubSeq(t, i, e)>> \o FindAllFiles(p, t, e + 1)
             ELSE FindAllFiles(p, t, i + 1)

\* updates["work_items"] after the loop over work_item_patterns: the matches
\* of the patterns k.. of the list, one list extended by the next.
RECURSIVE ExtendWorkItems(_, _)
ExtendWorkItems(t, k) ==
    IF k > Len(WorkItemPatterns) THEN <<>>
    ELSE FindAllWorkItems(WorkItemPatterns[k], t, 1) \o ExtendWorkItems(t, k + 1)

\* updates["files_changed"] after the loop over file_patterns.
RECURSIVE ExtendFiles(_, _)
ExtendFiles(t, k) ==
    IF k > Len(FilePatterns) THEN <<>>
    ELSE FindAllFiles(FilePatterns[k], t, 1) \o ExtendFiles(t, k + 1)

\* The categories in the order parse_session_summary tests them.
Categories == <<"feature", "bugfix", "architecture", "documentation">>

\* The terms that put a category into updates["categories"].
CategoryTerms(category) ==
    CASE category = "feature" ->
            {<<"i","m","p","l","e","m","e","n","t","e","d">>,
             <<"a","d","d","e","d">>,
             <<"c","r","e","a","t","e","d">>,
             <<"n","e","w"," ","f","e","a","t","u","r","e">>,
             <<"e","n","h","a","n","c","e","m","e","n","t">>}
      [] category = "bugfix" ->
            {<<"f","i","x","e","d">>,
             <<"r","e","s","o","l","v","e","d">>,
             <<"b","u","g">>,
             <<"i","s","s","u","e">>,
             <<"e","r","r","o","r">>}
      [] category = "architecture" ->
            {<<"a","r","c","h","i","t","e","c","t","u","r","e">>,
             <<"d","e","s","i","g","n">>,
             <<"r","e","f","a","c","t","o","r">>,
             <<"r","e","s","t","r","u","c","t","u","r","e">>}
      [] category = "documentation" ->
            {<<"d","o","c","u","m","e","n","t","a","t","i","o","n">>,
             <<"d","o","c","s">>,
             <<"r","e","a","d","m","e">>,
             <<"g","u","i","d","e">>}

\* Variant of CategoryPresent: the terms are looked for in the summary as it
\* was given, not in its lowercase form.
CategoryPresentCaseSensitive(category, session_summary) ==
    \E term \in CategoryTerms(category) : Contains(session_summary, term)

\* any(term in summary_lower for term in [...])
CategoryPresent(category, session_summary) ==
    \E term \in CategoryTerms(category) :
        Contains(Lower(session_summary), term)

\* The terms extract_features, extract_bug_fixes, extract_architecture_changes
\* and extract_documentation_updates look for in a line.
LineTerms(category) ==
    CASE category = "feature" ->
            {<<"i","m","p","l","e","m","e","n","t","e","d">>,
             <<"a","d","d","e","d">>,
             <<"c","r","e","a","t","e","d">>,
             <<"n","e","w">>}
      [] category = "bugfix" ->
            {<<"f","i","x","e","d">>,
             <<"r","e","s","o","l","v","e","d">>,
             <<"c","o","r","r","e","c","t","e","d">>}
      [] category = "architecture" ->
            {<<"a","r","c","h","i","t","e","c","t","u","r","e">>,
             <<"d","e","s","i","g","n">>,
             <<"r","e","f","a","c","t","o","r">>,
             <<"r","e","s","t","r","u","c","t","u","r","e">>,
             <<"m","i","g","r","a","t","e">>}
      [] category = "documentation" ->
            {<<"d","o","c","u","m","e","n","t","a","t","i","o","n">>,
             <<"d","o","c","s">>,
             <<"r","e","a","d","m","e">>,
             <<"g","u","i","d","e">>,
             <<"m","a","n","u","a","l">>}

\* The feature_term list of extract_features.
FeatureTerms ==
    {<<"f","e","a","t","u","r","e">>,
     <<"c","o","m","p","o","n","e","n","t">>,
     <<"f","u","n","c","t","i","o","n">>,
     <<"e","n","d","p","o","i","n","t">>,
     <<"p","a","g","e">>}

\* session_summary.split("\n")
RECURSIVE SplitLines(_)
SplitLines(t) ==
    LET breaks == {i \in DOMAIN t : t[i] = "\n"}
    IN  IF breaks = {} THEN <<t>>
        ELSE LET k == CHOOSE i \in breaks : \A j \in breaks : i <= j
             IN  <<SubSeq(t, 1, k - 1)>> \o SplitLines(SubSeq(t, k + 1, Len(t)))

\* The condition under which the extract_* function of a category appends a
\* line: a term of the category in the lowercased line and, for features, a
\* feature term as well.
LineQualifies(category, line) ==
    /\ \E term \in LineTerms(category) : Contains(Lower(line), term)
    /\ category = "feature" =>
           \E term \in FeatureTerms : Contains(Lower(line), term)

\* Variant of ExtractLines: the line is appended as it stands.
ExtractLinesUnstripped(category, session_summary) ==
    SelectSeq(SplitLines(session_summary),
              LAMBDA line : LineQualifies(category, line))

\* extract_features, extract_bug_fixes, extract_architecture_changes and
\* extract_documentation_updates: line.strip() of every line that qualifies,
\* in the order of the lines.
ExtractLines(category, session_summary) ==
    LET found == SelectSeq(SplitLines(session_summary),
                           LAMBDA line : LineQualifies(category, line))
    IN  [k \in DOMAIN found |-> Strip(found[k])]

\* Variant of CategoryLines: the extract_* function is called whether the
\* category was found or not.
CategoryLinesUngated(category, session_summary, initial) ==
    ExtractLines(category, session_summary)

\* updates["features_added"] and its like: the list is assigned what the
\* extract_* function returns, under the `if` that appends the category, and
\* keeps its initial value otherwise.
CategoryLines(category, session_summary, initial) ==
    IF CategoryPresent(category, session_summary)
    THEN ExtractLines(category, session_summary)
    ELSE initial

\* The lists list(S) can return for a set S: its elements once each, in any
\* order (the iteration order of a set of strings is not fixed).
RECURSIVE ListOfSet(_)
ListOfSet(S) ==
    IF S = {} THEN {<<>>}
    ELSE UNION {{<<x>> \o xs : xs \in ListOfSet(S \ {x})} : x \in S}

\* Variant of RemoveDuplicates: the list is left as it is.
KeepDuplicates(xs) == {xs}

\* "Remove duplicates": list(set(xs)).
RemoveDuplicates(xs) == ListOfSet(Range(xs))

\* Variant of NewUpdates: the dict of the earlier call is used again.
NewUpdatesShared(earlier, session_summary, now) ==
    [earlier EXCEPT !.summary = session_summary, !.timestamp = Timestamp(now)]

\* The dict parse_session_summary starts from: a new one at every call,
\* whatever an earlier call returned.
NewUpdates(earlier, session_summary, now) ==
    [summary               |-> session_summary,
     timestamp             |-> Timestamp(now),
     work_items            |-> <<>>,
     files_changed         |-> <<>>,
     features_added        |-> <<>>,
     bugs_fixed            |-> <<>>,
     architecture_changes  |-> <<>>,
     documentation_updates |-> <<>>,
     categories            |-> <<>>]

\* SessionUpdater.parse_session_summary, called after an earlier call returned
\* `earlier`: the dicts it can return, which differ in the order of the three
\* lists that went through a set.
ParseAfter(earlier, session_summary, now) ==
    LET fresh == NewUpdates(earlier, session_summary, now)
        present == SelectSeq(Categories,
                       LAMBDA c : CategoryPresent(c, session_summary))
    IN  {[fresh EXCEPT
            !.work_items = wi,
            !.files_changed = fc,
            !.features_added = CategoryLines("feature", session_summary, @),
            !.bugs_fixed = CategoryLines("bugfix", session_summary, @),
            !.architecture_changes =
                CategoryLines("architecture", session_summary, @),
            !.documentation_updates =
                CategoryLines("documentation", session_summary, @),
            !.categories = cs] :
         wi \in RemoveDuplicates(fresh.work_items
                                  \o ExtendWorkItems(session_summary, 1)),
         fc \in RemoveDuplicates(fresh.files_changed
                                  \o ExtendFiles(session_summary, 1)),
         cs \in RemoveDuplicates(fresh.categories \o present)}

\* SessionUpdater.parse_session_summary: the dicts the call can return for the
\* summary at the clock reading `now`.
parse_session_summary(session_summary, now) ==
    ParseAfter(NoUpdates, session_summary, now)

\* Variant of FanoutDone: the loop stops one entry early.
FanoutDoneEarly(i, n) == i >= n

\* The `for` loop over self.integrations.items() has passed the last entry.
FanoutDone(i, n) == i > n

\* Variant of AdapterFailureAborts: no try/except inside the loop.
AdapterFailureAbortsLoop(outcome) == outcome = "raise"

\* The try/except around one integration's update: its exception is printed
\* and the loop goes on.
AdapterFailureAborts(outcome) == FALSE

\* Variant of RefreshFailureAborts: the exception is let through.
RefreshFailurePropagates(outcome) == outcome = "failed"

\* refresh_ai_context catches what the context extractor raises.
RefreshFailureAborts(outcome) == FALSE

\* The outer try/except of update_session_documentation: any exception inside
\* becomes the return value False.
UpdateReturn(failed) == IF failed THEN "False" ELSE "True"

\* Variant of ExitStatus: the command exits with status 0 whatever happened.
ExitStatusAlwaysZero(res, statsOk) == 0

\* The `update` command: exit status 0 when the update succeeded and its
\* statistics were read and printed, sys.exit(1) when the update failed or
\* get_session_statistics raised (the command's `except Exception`).
ExitStatus(res, statsOk) == IF res = "True" /\ statsOk THEN 0 ELSE 1

\* Variant of LogFileName: the name is taken from the update's timestamp.
LogFileNameOfUpdate(now, upd) == <<upd.timestamp[1], upd.timestamp[2]>>

\* create_session_log: the name session_<YYYYMMDD>_<HHMMSS>.md, strftime of the
\* clock reading taken in create_session_log: the minute (standing for the
\* date, the hour and the minute) and the second.
LogFileName(now, upd) ==
    <<SecondOf(now) \div SecondsPerMinute, SecondOf(now) % SecondsPerMinute>>

\* The titles of the enumerated sections of a record, in the order they are
\* written, each with the key of the list it enumerates.
SectionTitles ==
    <<"Work Items Referenced", "Files Changed", "Features Added", "Bugs Fixed">>

\* The list of the update a section enumerates.
SectionItems(upd, title) ==
    CASE title = "Work Items Referenced" -> upd.work_items
      [] title = "Files Changed" -> upd.files_changed
      [] title = "Features Added" -> upd.features_added
      [] title = "Bugs Fixed" -> upd.bugs_fixed

\* Variant of RecordSections: every section is written, empty or not.
RecordSectionsUnconditional(upd) ==
    [k \in DOMAIN SectionTitles |->
        [title |-> SectionTitles[k],
         items |-> SectionItems(upd, SectionTitles[k])]]

\* The enumerated sections create_session_log writes: one per list of the
\* update that is not empty, a "- " line per element.
RecordSections(upd) ==
    SelectSeq([k \in DOMAIN SectionTitles |->
                  [title |-> SectionTitles[k],
                   items |-> SectionItems(upd, SectionTitles[k])]],
              LAMBDA section : section.items # <<>>)

\* The record create_session_log writes: the timestamp of the parsed update,
\* the summary, the categories, the four counts and the enumerated sections;
\* `complete` is false when the write stopped part-way.
SessionRecord(session_summary, upd, run, complete) ==
    [summary        |-> session_summary,
     timestamp      |-> upd.timestamp,
     run            |-> run,
     complete       |-> complete,
     categories     |-> upd.categories,
     work_items     |-> Len(upd.work_items),
     files_changed  |-> Len(upd.files_changed),
     features_added |-> Len(upd.features_added),
     bugs_fixed     |-> Len(upd.bugs_fixed),
     sections       |-> RecordSections(upd)]

\* Variant of WriteFile: an existing file is kept (exclusive creation).
WriteFileKeepExisting(dir, name, rec) ==
    [n \in DOMAIN dir \cup {name} |-> IF n \in DOMAIN dir THEN dir[n] ELSE rec]

\* open(log_file, "w"): the file is created, or replaced when it exists.
WriteFile(dir, name, rec) ==
    [n \in DOMAIN dir \cup {name} |-> IF n = name THEN rec ELSE dir[n]]

\* The log directory after create_session_log ran at clock reading `now` and
\* ended with `outcome`: the directory and the file are opened and the record
\* written ("written"), or mkdir or open raises ("failed_open"), or a write
\* raises after the file was opened, which leaves a partial record
\* ("failed_write").
create_session_log(dir, now, session_summary, upd, run, outcome) ==
    IF outcome = "failed_open" THEN dir
    ELSE WriteFile(dir, LogFileName(now, upd),
                   SessionRecord(session_summary, upd, run, outcome = "written"))

\* The history of appends after that call: an append counts once it opened the
\* file.
AppendHistory(hist, now, session_summary, upd, run, outcome) ==
    IF outcome = "failed_open" THEN hist
    ELSE Append(hist, [run |-> run, at |-> now, summary |-> session_summary,
                       timestamp |-> upd.timestamp])

LogOutcomes == {"written", "failed_open", "failed_write"}

\* `contextflow update <summary>`: loads the configuration and, when session
\* updates are mandatory, constructs the SessionUpdater (ensure_directories,
\* _initialize_integrations).
CliUpdate ==
    /\ pc = "idle"
    /\ runs' = runs + 1
    /\ \E s \in FlowSummaries, m \in BOOLEAN, rw \in BOOLEAN :
        /\ summary' = s
        /\ mandatory' = m
        /\ requireWI' = rw
        /\ \/ /\ ~m
              /\ pc' = "done"
              /\ exitCode' = 0
              /\ autoRefresh' = TRUE
              /\ adapterStatus' = [a \in AdapterSet |-> "disabled"]
              /\ integrations' = <<>>
           \/ /\ m
              /\ \E ar \in BOOLEAN, st \in [AdapterSet -> AdapterStatuses],
                    dirsOk \in BOOLEAN :
                  /\ autoRefresh' = ar
                  /\ IF dirsOk
                     THEN /\ adapterStatus' = st
                          /\ integrations' = InitializeIntegrations(st)
                          /\ pc' = "parse"
                          /\ exitCode' = -1
                     ELSE /\ adapterStatus' = [a \in AdapterSet |-> "disabled"]
                          /\ integrations' = <<>>
                          /\ pc' = "done"
                          /\ exitCode' = 1
    /\ idx' = 1
    /\ calls' = [a \in AdapterSet |-> 0]
    /\ raised' = {}
    /\ successCount' = 0
    /\ updates' = NoUpdates
    /\ result' = "none"
    /\ logOutcome' = "none"
    /\ refreshOutcome' = "none"
    /\ UNCHANGED <<validatorVars, toolVars, logs, clock, appendHist>>

\* update_session_documentation, first step: parse_session_summary.
Parse ==
    /\ pc = "parse"
    /\ updates' \in parse_session_summary(summary, clock)
    /\ pc' = IF FanoutDone(1, Len(integrations)) THEN "log" ELSE "fanout"
    /\ UNCHANGED <<policyVars, validatorVars, toolVars, autoRefresh,
                   adapterStatus,
                   integrations, idx, calls, raised, successCount, logs, clock,
                   result, exitCode, runs, logOutcome, refreshOutcome,
                   appendHist>>

\* One turn of the loop: update_from_session of the next integration, which
\* returns or raises.
AdapterCall ==
    /\ pc = "fanout"
    /\ idx <= Len(integrations)
    /\ \E outcome \in {"ok", "raise"} :
        LET a == integrations[idx] IN
        /\ calls' = [calls EXCEPT ![a] = @ + 1]
        /\ raised' = IF outcome = "raise" THEN raised \cup {a} ELSE raised
        /\ successCount' = IF outcome = "ok" THEN successCount + 1
                                             ELSE successCount
        /\ IF outcome = "raise" /\ AdapterFailureAborts(outcome)
           THEN /\ result' = UpdateReturn(TRUE)
                /\ exitCode' = ExitStatus(UpdateReturn(TRUE), TRUE)
                /\ pc' = "done"
                /\ idx' = idx
           ELSE /\ idx' = idx + 1
                /\ pc' = IF FanoutDone(idx + 1, Len(integrations))
                         THEN "log" ELSE "fanout"
                /\ UNCHANGED <<result, exitCode>>
    /\ UNCHANGED <<policyVars, validatorVars, toolVars, autoRefresh,
                   adapterStatus,
                   integrations, updates, logs, clock, runs, logOutcome,
                   refreshOutcome, appendHist>>

\* The call of create_session_log, and the return when it raised or when no
\* context refresh is configured; the command then reads the statistics and
\* exits.
CreateLog ==
    /\ pc = "log"
    /\ \E outcome \in LogOutcomes :
        /\ logOutcome' = outcome
        /\ logs' = create_session_log(logs, clock, summary, updates, runs,
                                      outcome)
        /\ appendHist' = AppendHistory(appendHist, clock, summary, updates,
                                       runs, outcome)
        /\ IF outcome = "written" /\ autoRefresh
           THEN /\ pc' = "refresh"
                /\ UNCHANGED <<result, exitCode>>
           ELSE /\ pc' = "done"
                /\ result' = UpdateReturn(outcome # "written")
                /\ \E statsOk \in BOOLEAN :
                       exitCode' = ExitStatus(UpdateReturn(outcome # "written"),
                                              statsOk)
    /\ UNCHANGED <<policyVars, validatorVars, toolVars, autoRefresh,
                   adapterStatus,
                   integrations, idx, calls, raised, successCount, updates,
                   clock, runs, refreshOutcome>>

\* refresh_ai_context, when auto_refresh is set; then the function returns
\* and the command reads the statistics and exits.
Refresh ==
    /\ pc = "refresh"
    /\ \E outcome \in {"ok", "failed"} :
        /\ refreshOutcome' = outcome
        /\ result' = UpdateReturn(RefreshFailureAborts(outcome))
        /\ \E statsOk \in BOOLEAN :
               exitCode' = ExitStatus(UpdateReturn(RefreshFailureAborts(outcome)),
                                      statsOk)
    /\ pc' = "done"
    /\ UNCHANGED <<policyVars, validatorVars, toolVars, autoRefresh,
                   adapterStatus,
                   integrations, idx, calls, raised, successCount, updates,
                   logs, clock, runs, logOutcome, appendHist>>

\* Time passes.
Tick ==
    /\ clock < MaxTick
    /\ pc # "done"
    /\ clock' = clock + 1
    /\ UNCHANGED <<policyVars, validatorVars, toolVars, pc, autoRefresh,
                   adapterStatus,
                   integrations, idx, calls, raised, successCount, updates,
                   logs, result, exitCode, runs, logOutcome, refreshOutcome,
                   appendHist>>

\* An earlier session: its update was parsed and logged at the first tick.
EarlierUpdate ==
    CHOOSE upd \in parse_session_summary(ExampleLong, StartTick) : TRUE

\* One invocation of the `update` command, on an empty log directory or on
\* one that holds the record of an earlier session of the current second.
Init ==
    /\ summary = <<>>
    /\ mandatory = TRUE
    /\ requireWI = TRUE
    /\ ValidatorIdle
    /\ ToolsIdle
    /\ pc = "idle"
    /\ autoRefresh = TRUE
    /\ adapterStatus = [a \in AdapterSet |-> "disabled"]
    /\ integrations = <<>>
    /\ idx = 1
    /\ calls = [a \in AdapterSet |-> 0]
    /\ raised = {}
    /\ successCount = 0
    /\ updates = NoUpdates
    /\ clock = StartTick
    /\ result = "none"
    /\ exitCode = -1
    /\ runs = 0
    /\ logOutcome = "none"
    /\ refreshOutcome = "none"
    /\ \E earlier \in BOOLEAN :
        /\ logs = IF earlier
                  THEN create_session_log(NoLogs, StartTick, ExampleLong,
                                          EarlierUpdate, 0, "written")
                  ELSE NoLogs
        /\ appendHist = IF earlier
                        THEN AppendHistory(<<>>, StartTick, ExampleLong,
                                           EarlierUpdate, 0, "written")
                        ELSE <<>>

Next == CliUpdate \/ Parse \/ AdapterCall \/ CreateLog \/ Refresh \/ Tick

Spec == Init /\ [][Next]_vars

\* ---------------------------------------------------------- the log store

\* One session update as the log directory sees it, from parse_session_summary
\* to the return of create_session_log: the update is stamped at the clock
\* reading of the parse, the integrations take `delay` ticks (they do not
\* touch the log directory), then create_session_log runs.
SessionAppend ==
    /\ runs < MaxRuns
    /\ \E s \in FlowSummaries :
      \E upd \in parse_session_summary(s, clock) :
      \E delay \in 0..(MaxTick - clock), outcome \in LogOutcomes :
        LET now == clock + delay
        IN
        /\ summary' = s
        /\ updates' = upd
        /\ clock' = now
        /\ runs' = runs + 1
        /\ logOutcome' = outcome
        /\ logs' = create_session_log(logs, now, s, upd, runs + 1, outcome)
        /\ appendHist' = AppendHistory(appendHist, now, s, upd, runs + 1,
                                       outcome)
        /\ result' = UpdateReturn(outcome # "written")
    /\ UNCHANGED <<mandatory, requireWI, validatorVars, toolVars, pc,
                   autoRefresh,
                   adapterStatus, integrations, idx, calls, raised,
                   successCount, exitCode, refreshOutcome>>

\* Time passes between two session updates.
Elapse ==
    /\ runs < MaxRuns
    /\ clock < MaxTick
    /\ clock' = clock + 1
    /\ UNCHANGED <<policyVars, validatorVars, toolVars, pc, autoRefresh,
                   adapterStatus,
                   integrations, idx, calls, raised, successCount, updates,
                   logs, result, exitCode, runs, logOutcome, refreshOutcome,
                   appendHist>>

LogStoreInit ==
    /\ summary = <<>>
    /\ mandatory = TRUE
    /\ requireWI = TRUE
    /\ ValidatorIdle
    /\ ToolsIdle
    /\ FlowIdle

LogStoreNext == SessionAppend \/ Elapse

LogStoreSpec == LogStoreInit /\ [][LogStoreNext]_vars

ValidatorInit ==
    /\ summary \in Texts
    /\ mandatory \in BOOLEAN
    /\ requireWI \in BOOLEAN
    /\ ValidatorIdle
    /\ ToolsIdle
    /\ FlowIdle

ValidatorNext == ValidateCall \/ EnforceCall

ValidatorSpec == ValidatorInit /\ [][ValidatorNext]_vars

\* ------------------------------------- SessionUpdater on bounded summaries

\* Longest summary of the parser specification, in fragments.
MaxParts == 3

\* The fragments the parser's summaries are built from: a line break, a blank,
\* a feature term, a feature noun, a line term that puts no category, a bugfix
\* term, a hash reference, a lowercase letters-hyphen-digits key and a file.
ParseFragments ==
    {<<"\n">>,
     <<" ">>,
     <<"A","d","d","e","d">>,
     <<" ","p","a","g","e">>,
     <<"n","e","w">>,
     <<"F","i","x","e","d">>,
     <<"#","4">>,
     <<"a","b","-","1">>,
     <<"a",".","p","y">>}

\* The specification's work-item scenario.
ExampleWorkItems ==
    <<"F","i","x","e","d"," ","P","R","O","J","-","1","2","3"," ","a","n","d"," ","#","4","5","6",","," ","s","e","e"," ","i","s","s","u","e","-","7","8","9">>

\* The specification's feature scenario.
ExampleFeature ==
    <<"I","m","p","l","e","m","e","n","t","e","d"," ","n","e","w"," ","l","o","g","i","n"," ","f","e","a","t","u","r","e"," ","i","n"," ","a","u","t","h"," ","m","o","d","u","l","e">>

\* The specification's bugfix scenario.
ExampleBugfix ==
    <<"F","i","x","e","d"," ","a"," ","c","r","i","t","i","c","a","l"," ","b","u","g"," ","i","n"," ","t","h","e"," ","p","a","r","s","e","r">>

\* Five lines: three features, a bug fix that is also a documentation update,
\* and an empty line.
ExampleLines ==
    <<"C","r","e","a","t","e","d"," ","e","n","d","p","o","i","n","t","\n","\t","A","d","d","e","d"," ","n","e","w"," ","p","a","g","e"," "," ","\n","R","E","S","O","L","V","E","D"," ","I","s","s","u","e","-","7"," ","i","n"," ","d","o","c","s","/","a","p","i",".","m","d","\n","\n","a","d","d","e","d"," ","f","u","n","c","t","i","o","n">>

\* A lowercase project key and nothing else.
ExampleLowercaseKey ==
    <<"p","r","o","j","-","1","2","3">>

\* The summaries of the scenarios, and one for each term of the parser's
\* lists.
ParseExamples ==
    {ExampleWorkItems, ExampleFeature, ExampleBugfix,
     ExampleLines, ExampleLowercaseKey,
     <<"s","e","e"," ","T","A","S","K","-","9"," ","a","n","d"," ","t","a","s","k","-","9">>,
     <<"c","o","r","r","e","c","t","e","d"," ","t","h","e"," ","t","y","p","o">>,
     <<"m","i","g","r","a","t","e"," ","t","h","e"," ","s","t","o","r","e">>,
     <<"t","h","e"," ","m","a","n","u","a","l">>,
     <<"n","e","w"," ","p","a","g","e">>,
     <<"N","e","w"," ","F","e","a","t","u","r","e">>,
     <<"E","n","h","a","n","c","e","m","e","n","t">>,
     <<"a","n"," ","E","r","r","o","r">>,
     <<"A","R","C","H","I","T","E","C","T","U","R","E">>,
     <<"D","e","s","i","g","n"," ","d","o","c">>,
     <<"r","e","f","a","c","t","o","r">>,
     <<"R","e","s","t","r","u","c","t","u","r","e">>,
     <<"D","o","c","u","m","e","n","t","a","t","i","o","n">>,
     <<"R","E","A","D","M","E",".","m","d">>,
     <<"u","s","e","r"," ","g","u","i","d","e">>,
     <<"s","r","c","/","c","o","r","e","/","x","_","1",".","p","y"," ","l","i","b">>,
     <<"v","1",".","2"," ","a","n","d"," ","x",".","y",".","z",".">>,
     <<"d","o","c","s","/">>,
     <<"a",".","b","/","c",".","d","-","e">>}

\* Every summary of at most MaxParts fragments, and the examples.
ParseTexts ==
    {Concat(fs) : fs \in UNION {[1..n -> ParseFragments] : n \in 0..MaxParts}}
    \cup ParseExamples \cup {ExampleShort, ExampleLong}

\* parse_session_summary(summary), the first call on this SessionUpdater.
ParseSummary ==
    /\ ppc = "input"
    /\ updates' \in ParseAfter(previous, summary, clock)
    /\ ppc' = "parsed"
    /\ UNCHANGED <<policyVars, validatorVars, pruneVars, raceVars, otherVars,
                   previous, pc,
                   autoRefresh,
                   adapterStatus, integrations, idx, calls, raised,
                   successCount, logs, clock, result, exitCode, runs,
                   logOutcome, refreshOutcome, appendHist>>

\* A second call of parse_session_summary on the same SessionUpdater at the
\* same clock reading, with the same summary or with another one.
ParseAgain ==
    /\ ppc = "parsed"
    /\ \E s \in {summary, ExampleShort} :
        /\ summary' = s
        /\ previous' = updates
        /\ updates' \in ParseAfter(updates, s, clock)
    /\ ppc' = "reparsed"
    /\ UNCHANGED <<mandatory, requireWI, validatorVars, pruneVars, raceVars,
                   otherVars, pc,
                   autoRefresh,
                   adapterStatus, integrations, idx, calls, raised,
                   successCount, logs, clock, result, exitCode, runs,
                   logOutcome, refreshOutcome, appendHist>>

\* create_session_log(summary, updates) of the parsed update.
AppendParsed ==
    /\ ppc = "parsed"
    /\ \E outcome \in LogOutcomes :
        /\ logOutcome' = outcome
        /\ logs' = create_session_log(logs, clock, summary, updates, runs + 1,
                                      outcome)
        /\ appendHist' = AppendHistory(appendHist, clock, summary, updates,
                                       runs + 1, outcome)
    /\ runs' = runs + 1
    /\ ppc' = "logged"
    /\ UNCHANGED <<policyVars, validatorVars, pruneVars, raceVars, otherVars,
                   previous, pc,
                   autoRefresh,
                   adapterStatus, integrations, idx, calls, raised,
                   successCount, updates, clock, result, exitCode,
                   refreshOutcome>>

ParserInit ==
    /\ summary \in ParseTexts
    /\ mandatory = TRUE
    /\ requireWI = TRUE
    /\ ValidatorIdle
    /\ ToolsIdle
    /\ FlowIdle

ParserNext == ParseSummary \/ ParseAgain \/ AppendParsed

ParserSpec == ParserInit /\ [][ParserNext]_vars

\* ------------------------- the validator and the parser on the same summary

\* validate_session_update and parse_session_summary are each called once on
\* the summary, in either order.
AgreementNext == ValidateCall \/ ParseSummary

AgreementSpec == ParserInit /\ [][AgreementNext]_vars

\* ------------------------------------- WorkflowManager: cleanup_old_logs

\* Session logs in the directory at most.
MaxFiles == 3

\* WorkflowConfig.session_log_retention_days, in days.
RetentionDays == 90

\* The day cleanup_old_logs runs, counted from the day the oldest log of the
\* model was written.
PruneDay == RetentionDays + 1

\* The modification days of the logs: one day more than the retention before
\* the prune, exactly the retention before it, one day less.
LogDays == {PruneDay - (RetentionDays + 1), PruneDay - RetentionDays,
            PruneDay - (RetentionDays - 1)}

\* The names of the logs, standing for session_<YYYYMMDD>_<HHMMSS>.md.
LogNames == 1..MaxFiles

\* What strftime("%Y-%m") can read when cleanup_old_logs runs.
Months == {"2026-10", "2026-11"}

\* Variant of IsOldLog: a log exactly the retention old is taken as well.
IsOldLogInclusive(file, now) == file.mtime <= now - RetentionDays

\* f.stat().st_mtime < retention_cutoff, the cutoff being the clock less the
\* retention.
IsOldLog(file, now) == file.mtime < now - RetentionDays

\* The names in old_logs: the session_*.md files of the log directory (not of
\* its subdirectories) older than the cutoff.
old_logs_of(dir, now) == {n \in DOMAIN dir : IsOldLog(dir[n], now)}

\* Variant of RemoveFile: the file stays where it was.
RemoveNoFile(dir, name) == dir

\* A directory less one file.
RemoveFile(dir, name) == [n \in DOMAIN dir \ {name} |-> dir[n]]

\* cleanup_old_logs up to the loop: the early returns, the list old_logs,
\* in the order glob yields it, and the mkdir of the archive directory, which
\* is outside the try and is done whether or not logs are archived.
PruneStart ==
    /\ prpc = "idle"
    /\ logDirBefore' = logDir
    /\ pruneCalls' = pruneCalls + 1
    /\ query' = NoQuery
    /\ cleaned' = 0
    /\ archived' = 0
    /\ errors' = <<>>
    /\ IF ~logDirExists \/ old_logs_of(logDir, PruneDay) = {}
       THEN /\ prpc' = "returned"
            /\ pruneResult' = NoPruneResult
            /\ UNCHANGED <<archiveMonth, oldLogs>>
       ELSE \E month \in Months, mkdir \in {"ok", "raise"} :
            /\ archiveMonth' = month
            /\ IF mkdir = "raise"
               THEN /\ prpc' = "raised"
                    /\ UNCHANGED oldLogs
               ELSE /\ prpc' = "loop"
                    /\ oldLogs' \in ListOfSet(old_logs_of(logDir, PruneDay))
            /\ UNCHANGED pruneResult
    /\ UNCHANGED <<policyVars, validatorVars, flowVars, parserVars, raceVars,
                   setupVars, cleanupVars, contextVars,
                   previousPrune, logsAppended, autoArchive,
                   logDirExists, logDir, archive>>

\* One turn of the loop: the log is renamed into the archive directory or
\* unlinked, or that raises and the error is appended; after the last turn
\* the function returns.
PruneRecord ==
    /\ prpc = "loop"
    /\ oldLogs # <<>>
    /\ \E outcome \in {"ok", "raise"} :
        LET log_file == Head(oldLogs)
            done == Tail(oldLogs) = <<>>
            nowCleaned == IF outcome = "ok" /\ ~autoArchive
                          THEN cleaned + 1 ELSE cleaned
            nowArchived == IF outcome = "ok" /\ autoArchive
                           THEN archived + 1 ELSE archived
            nowErrors == IF outcome = "raise"
                         THEN Append(errors, log_file) ELSE errors
        IN
        /\ logDir' = IF outcome = "ok" THEN RemoveFile(logDir, log_file)
                                       ELSE logDir
        /\ archive' = IF outcome = "ok" /\ autoArchive
                      THEN WriteFile(archive, <<archiveMonth, log_file>>,
                                     logDir[log_file])
                      ELSE archive
        /\ cleaned' = nowCleaned
        /\ archived' = nowArchived
        /\ errors' = nowErrors
        /\ oldLogs' = Tail(oldLogs)
        /\ prpc' = IF done THEN "returned" ELSE "loop"
        /\ pruneResult' = IF done
                          THEN [cleaned |-> nowCleaned,
                                archived |-> nowArchived,
                                errors |-> nowErrors]
                          ELSE pruneResult
    /\ query' = NoQuery
    /\ UNCHANGED <<policyVars, validatorVars, flowVars, parserVars, raceVars,
                   setupVars, cleanupVars, contextVars,
                   previousPrune, pruneCalls, logsAppended,
                   autoArchive, logDirExists, logDirBefore, archiveMonth>>

\* cleanup_old_logs is called once, on a log directory that is missing or
\* holds up to MaxFiles logs of the three ages, under either archive policy.
PruneInit ==
    /\ summary = <<>>
    /\ mandatory = TRUE
    /\ requireWI = TRUE
    /\ ValidatorIdle
    /\ FlowIdle
    /\ ParserIdle
    /\ RaceIdle
    /\ OthersIdle
    /\ prpc = "idle"
    /\ autoArchive \in BOOLEAN
    /\ logDirExists \in BOOLEAN
    /\ logDir \in IF logDirExists
                  THEN UNION {{[n \in names |-> [mtime |-> days[n], body |-> n]] :
                                  days \in [names -> LogDays]} :
                              names \in SUBSET LogNames}
                  ELSE {NoFiles}
    /\ logDirBefore = NoFiles
    /\ archive = NoFiles
    /\ archiveMonth = "none"
    /\ oldLogs = <<>>
    /\ cleaned = 0
    /\ archived = 0
    /\ errors = <<>>
    /\ pruneResult = NoPruneResult

PruneNext == PruneStart \/ PruneRecord

PruneSpec == PruneInit /\ [][PruneNext]_vars

\* ------------------------------------------- queries of the log directory

\* cleanup_old_logs calls made on one directory, one after the other.
MaxPrunes == 2

\* Session logs written to the directory between the queries.
MaxAppends == 1

\* The window of recent_sessions, in days.
StatisticsWindowDays == 30

\* The window of `logs --recent`, in days.
RecentLogsDays == 7

\* The modification days of the logs the statistics are taken of: beyond
\* the retention, at the retention, at the cutoff of the statistics window
\* and inside the window.
StatisticsDays ==
    {PruneDay - (RetentionDays + 1), PruneDay - RetentionDays,
     PruneDay - StatisticsWindowDays, PruneDay - (StatisticsWindowDays - 1)}

\* The modification days of the logs that are listed: around the window of
\* `logs --recent` and the day before the listing.
ListingDays ==
    {PruneDay - (RecentLogsDays + 1), PruneDay - RecentLogsDays,
     PruneDay - (RecentLogsDays - 1), PruneDay - 1}

\* The names of the logs written between the queries.
AppendedNames == (MaxFiles + 1)..(MaxFiles + MaxAppends)

\* The values of --count; the option takes any integer.
Counts == -1..(MaxFiles + 1)

\* The log directories of up to MaxFiles logs with the modification days.
\* A log is named after the second it was written in, so the logs are
\* numbered from the oldest one on; two of them may be of the same day.
DirectoriesOf(days) ==
    UNION {{[n \in 1..k |-> [mtime |-> d[n], body |-> n]] :
               d \in {e \in [1..k -> days] :
                         \A i, j \in 1..k : i < j => e[i] <= e[j]}} :
           k \in 0..MaxFiles}

\* log_files.sort(key=st_mtime, reverse=True): one element put into a list
\* that is sorted, behind the elements that are not older than it (the sort
\* is stable).
RECURSIVE InsertNewestFirst(_, _, _)
InsertNewestFirst(x, sorted, dir) ==
    IF sorted = <<>> THEN <<x>>
    ELSE IF dir[Head(sorted)].mtime >= dir[x].mtime
         THEN <<Head(sorted)>> \o InsertNewestFirst(x, Tail(sorted), dir)
         ELSE <<x>> \o sorted

\* Variant of SortNewestFirst: the list is left in the order of glob.
SortNot(xs, dir) == xs

\* log_files.sort(key=lambda x: x.stat().st_mtime, reverse=True)
RECURSIVE SortNewestFirst(_, _)
SortNewestFirst(xs, dir) ==
    IF xs = <<>> THEN <<>>
    ELSE InsertNewestFirst(xs[Len(xs)],
                           SortNewestFirst(SubSeq(xs, 1, Len(xs) - 1), dir),
                           dir)

\* xs[:count]; a negative count is taken from the end of the list.
Slice(xs, count) ==
    LET stop == IF count < 0 THEN Len(xs) + count ELSE count
    IN  SubSeq(xs, 1, IF stop < 0 THEN 0
                      ELSE IF stop < Len(xs) THEN stop ELSE Len(xs))

\* The `logs` command, for the order glob yielded the files in: whether it
\* prints a table (or else `No session logs found`) and the rows of it.
LogsListing(exists, dir, globbed, recent, count, now) ==
    IF ~exists \/ globbed = <<>> THEN [table |-> FALSE, rows |-> <<>>]
    ELSE LET sorted == SortNewestFirst(globbed, dir)
             kept == IF recent
                     THEN SelectSeq(sorted,
                              LAMBDA n : dir[n].mtime > now - RecentLogsDays)
                     ELSE sorted
         IN  [table |-> TRUE, rows |-> Slice(kept, count)]

\* Variant of CountRecent: a log exactly at the cutoff counts as well.
CountRecentInclusive(dir, now) ==
    Cardinality({n \in DOMAIN dir :
                    dir[n].mtime >= now - StatisticsWindowDays})

\* The count of the logs with st_mtime > cutoff, the cutoff being the clock
\* less thirty days.
CountRecent(dir, now) ==
    Cardinality({n \in DOMAIN dir :
                    dir[n].mtime > now - StatisticsWindowDays})

\* SessionUpdater.get_session_statistics
get_session_statistics(exists, dir, now) ==
    IF ~exists THEN [total_sessions |-> 0, recent_sessions |-> 0]
    ELSE [total_sessions |-> Cardinality(DOMAIN dir),
          recent_sessions |-> CountRecent(dir, now)]

\* WorkflowManager._get_session_statistics, for the order glob yielded the
\* files in: the two counts and last_session, the modification day of the
\* first log after the sort, -1 for None.
manager_session_statistics(exists, dir, globbed, now) ==
    IF ~exists \/ globbed = <<>>
    THEN [total_sessions |-> 0, recent_sessions |-> 0, last_session |-> -1]
    ELSE LET sorted == SortNewestFirst(globbed, dir)
         IN  [total_sessions |-> Len(sorted),
              recent_sessions |->
                  Len(SelectSeq(sorted,
                          LAMBDA n : dir[n].mtime > now - StatisticsWindowDays)),
              last_session |-> dir[sorted[1]].mtime]

\* WorkflowManager._get_maintenance_status: old_logs_count and
\* log_cleanup_needed.
maintenance_status(exists, dir, now) ==
    LET old_logs == IF exists THEN old_logs_of(dir, now) ELSE {}
    IN  [old_logs_count |-> Cardinality(old_logs),
         log_cleanup_needed |-> Cardinality(old_logs) > 0]

\* `contextflow logs [--recent] [--count N]` is run.
LogsCommand ==
    /\ \E recent \in BOOLEAN, count \in Counts,
          globbed \in ListOfSet(DOMAIN logDir) :
        query' = [op |-> "logs", dir |-> logDir, recent |-> recent,
                  count |-> count,
                  out |-> LogsListing(logDirExists, logDir, globbed, recent,
                                      count, PruneDay)]
    /\ UNCHANGED <<policyVars, validatorVars, flowVars, parserVars, pruneVars,
                   raceVars, setupVars, cleanupVars, contextVars,
                   previousPrune, pruneCalls, logsAppended>>

\* The statistics are read by both implementations, as `status` and
\* get_workflow_status do.
Statistics ==
    /\ \E globbed \in ListOfSet(DOMAIN logDir) :
        query' = [op |-> "statistics", dir |-> logDir,
                  exists |-> logDirExists,
                  updater |-> get_session_statistics(logDirExists, logDir,
                                                     PruneDay),
                  manager |-> manager_session_statistics(logDirExists, logDir,
                                                         globbed, PruneDay)]
    /\ UNCHANGED <<policyVars, validatorVars, flowVars, parserVars, pruneVars,
                   raceVars, setupVars, cleanupVars, contextVars,
                   previousPrune, pruneCalls, logsAppended>>

\* get_workflow_status reads the maintenance status.
MaintenanceStatus ==
    /\ query' = [op |-> "maintenance", dir |-> logDir,
                 afterPrune |-> prpc = "returned" /\ pruneResult.errors = <<>>,
                 status |-> maintenance_status(logDirExists, logDir, PruneDay)]
    /\ UNCHANGED <<policyVars, validatorVars, flowVars, parserVars, pruneVars,
                   raceVars, setupVars, cleanupVars, contextVars,
                   previousPrune, pruneCalls, logsAppended>>

\* create_session_log of another session, between two calls of
\* cleanup_old_logs: the directory is made when it is missing and a log of
\* the current day is written under a new name.
AppendRecord ==
    /\ prpc \in {"idle", "returned"}
    /\ logsAppended < MaxAppends
    /\ query' = NoQuery
    /\ logsAppended' = logsAppended + 1
    /\ logDirExists' = TRUE
    /\ logDir' = WriteFile(logDir, MaxFiles + logsAppended + 1,
                           [mtime |-> PruneDay,
                            body |-> MaxFiles + logsAppended + 1])
    /\ UNCHANGED <<policyVars, validatorVars, flowVars, parserVars, raceVars,
                   setupVars, cleanupVars, contextVars,
                   previousPrune, pruneCalls, prpc, autoArchive,
                   logDirBefore, archive, archiveMonth, oldLogs, cleaned,
                   archived, errors, pruneResult>>

\* The caller keeps what cleanup_old_logs returned and is ready to call it
\* again, clock and policy as they were.
PruneAgain ==
    /\ prpc = "returned"
    /\ pruneCalls < MaxPrunes
    /\ previousPrune' = pruneResult
    /\ prpc' = "idle"
    /\ query' = NoQuery
    /\ UNCHANGED <<policyVars, validatorVars, flowVars, parserVars, raceVars,
                   setupVars, cleanupVars, contextVars,
                   pruneCalls, logsAppended, autoArchive,
                   logDirExists, logDir, logDirBefore, archive, archiveMonth,
                   oldLogs, cleaned, archived, errors, pruneResult>>

\* A log directory that is missing or holds up to MaxFiles logs, under
\* either archive policy; nothing was called yet.
DirectoryInit(days) ==
    /\ summary = <<>>
    /\ mandatory = TRUE
    /\ requireWI = TRUE
    /\ ValidatorIdle
    /\ FlowIdle
    /\ ParserIdle
    /\ RaceIdle
    /\ OthersIdle
    /\ prpc = "idle"
    /\ autoArchive \in BOOLEAN
    /\ logDirExists \in BOOLEAN
    /\ logDir \in IF logDirExists THEN DirectoriesOf(days) ELSE {NoFiles}
    /\ logDirBefore = NoFiles
    /\ archive = NoFiles
    /\ archiveMonth = "none"
    /\ oldLogs = <<>>
    /\ cleaned = 0
    /\ archived = 0
    /\ errors = <<>>
    /\ pruneResult = NoPruneResult

\* Session logs are written and pruned, and the statistics are read in
\* between.
StatisticsInit == DirectoryInit(StatisticsDays)

StatisticsNext ==
    \/ PruneStart
    \/ PruneRecord
    \/ AppendRecord
    \/ Statistics

StatisticsSpec == StatisticsInit /\ [][StatisticsNext]_vars

\* cleanup_old_logs is called again and again on one directory, and the
\* maintenance status is read in between.
MaintenanceInit == DirectoryInit(LogDays)

MaintenanceNext ==
    \/ PruneStart
    \/ PruneRecord
    \/ PruneAgain
    \/ MaintenanceStatus

MaintenanceSpec == MaintenanceInit /\ [][MaintenanceNext]_vars

\* The session logs of a directory are listed and the statistics read.
ListingInit == DirectoryInit(ListingDays)

ListingNext == LogsCommand \/ Statistics

ListingSpec == ListingInit /\ [][ListingNext]_vars

\* ------------------------------------------------------- the context views

\* Session logs in the directory the context is gathered from.
MaxRecords == 6

\* The window of _get_recent_changes, in days.
RecentChangesDays == 7

\* The sessions _get_recent_changes reads at most.
RecentChangesCap == 5

\* The window of _get_recent_work_items, in days.
WorkItemDays == 14

\* The recent changes and the work items generate_quick_context writes at
\* most.
QuickChanges == 3

QuickItems == 5

\* The work items the logs reference.
WorkItemKeys == <<"PROJ-1", "PROJ-2", "PROJ-3", "#4", "#5", "issue-6">>

\* What a log holds: the matches of the pattern of its `## Session Summary`
\* section, none when the section is not there or not ended or else the text
\* of the section, and the lines of its `### Work Items Referenced` section.
LogBody(summaries, items) == [summary |-> summaries, items |-> items]

\* The log written as the n-th of a directory: its own summary and its own
\* work item; the logs after the sixth reference the items again.
OwnBody(n) == LogBody(<<n>>, {WorkItemKeys[((n - 1) % Len(WorkItemKeys)) + 1]})

\* What the first log of a directory may be instead: one with no work items,
\* one that names the work item of the next log as well, one whose summary
\* section was not written to its end.
FirstBodies ==
    {OwnBody(1),
     LogBody(<<1>>, {}),
     LogBody(<<1>>, {WorkItemKeys[1], WorkItemKeys[2]}),
     LogBody(<<>>, {WorkItemKeys[1]})}

\* The directory of `older` logs beyond the window of the work items, `mid`
\* logs inside it but beyond the window of the recent changes, and `newer`
\* logs inside both, each log written on a day of its own: the oldest of a
\* group is exactly at the cutoff the group begins at. The logs are numbered
\* from the oldest one on.
ContextDirectory(older, mid, newer, first) ==
    [n \in 1..(older + mid + newer) |->
        [mtime |-> IF n <= older
                   THEN PruneDay - (WorkItemDays + older - n)
                   ELSE IF n <= older + mid
                   THEN PruneDay - (RecentChangesDays + older + mid - n)
                   ELSE PruneDay - (older + mid + newer - n),
         body |-> IF n = 1 THEN first ELSE OwnBody(n)]]

\* The directories of up to MaxRecords logs, no more of them in a window
\* than the window has days.
ContextDirectories ==
    {ContextDirectory(c[1], c[2], c[3], first) :
        c \in {d \in (0..MaxRecords) \X (0..MaxRecords) \X (0..MaxRecords) :
                  /\ d[1] + d[2] + d[3] \in 1..MaxRecords
                  /\ d[2] <= WorkItemDays - RecentChangesDays
                  /\ d[3] <= RecentChangesDays},
        first \in FirstBodies}

\* f"Recent: {summary[:100]}..."
RecentEntry(summaryText) == <<"Recent: ", summaryText, "...">>

\* recent_logs[:5]
TakeSessions(recent_logs) == Slice(recent_logs, RecentChangesCap)

\* One turn of the loop of _get_recent_changes over the logs taken: the
\* entry of the log when its summary section is found.
RECURSIVE SummariesOf(_, _)
SummariesOf(taken, dir) ==
    IF taken = <<>> THEN <<>>
    ELSE LET content == dir[Head(taken)].body
         IN  (IF content.summary = <<>> THEN <<>>
              ELSE <<RecentEntry(Head(content.summary))>>)
                 \o SummariesOf(Tail(taken), dir)

\* ContextExtractor._get_recent_changes: the lists it can return, one for
\* each order glob can yield the logs of the last seven days in.
get_recent_changes(exists, dir, now) ==
    IF ~exists THEN {<<>>}
    ELSE LET recent == {n \in DOMAIN dir :
                           dir[n].mtime > now - RecentChangesDays}
         IN  {SummariesOf(TakeSessions(SortNewestFirst(globbed, dir)), dir) :
                 globbed \in ListOfSet(recent)}

\* ContextExtractor._get_recent_work_items: the lists it can return, list()
\* of the set of the work items of the logs of the last fourteen days.
get_recent_work_items(exists, dir, now) ==
    IF ~exists THEN {<<>>}
    ELSE ListOfSet(UNION {dir[n].body.items :
                             n \in {m \in DOMAIN dir :
                                       dir[m].mtime > now - WorkItemDays}})

\* A view that was not written.
NoView == [written |-> FALSE, recent_changes |-> <<>>, work_items |-> <<>>]

\* Variant of generate_quick_context: the lists are written in full.
generate_quick_context_in_full(project_context) ==
    [written |-> TRUE,
     recent_changes |-> project_context.recent_changes,
     work_items |-> project_context.work_items]

\* ContextExtractor.generate_quick_context: the entries under RECENT CHANGES
\* and under ACTIVE WORK ITEMS.
generate_quick_context(project_context) ==
    [written |-> TRUE,
     recent_changes |-> Slice(project_context.recent_changes, QuickChanges),
     work_items |-> Slice(project_context.work_items, QuickItems)]

\* ContextExtractor.generate_full_context: the entries under Recent Changes
\* and under Active Work Items.
generate_full_context(project_context) ==
    [written |-> TRUE,
     recent_changes |-> project_context.recent_changes,
     work_items |-> project_context.work_items]

\* ContextExtractor.extract_and_generate_context: the context is gathered,
\* the quick view is written and then the full view; either write may raise,
\* which ends the call with False.
GenerateContext ==
    /\ context = NoContext
    /\ \E changes \in get_recent_changes(logDirExists, logDir, PruneDay),
          items \in get_recent_work_items(logDirExists, logDir, PruneDay),
          outcome \in {"ok", "quick_raises", "full_raises"} :
        LET project_context ==
                [recent_changes |-> changes, work_items |-> items]
        IN  context' =
                [op |-> "generated",
                 ret |-> outcome = "ok",
                 project_context |-> project_context,
                 quick |-> IF outcome = "quick_raises" THEN NoView
                           ELSE generate_quick_context(project_context),
                 full |-> IF outcome = "ok"
                          THEN generate_full_context(project_context)
                          ELSE NoView]
    /\ UNCHANGED <<policyVars, validatorVars, flowVars, parserVars, pruneVars,
                   raceVars, setupVars, queryVars, cleanupVars>>

\* A log directory that is missing or holds up to MaxRecords logs; no
\* context was generated yet.
ContextInit ==
    /\ summary = <<>>
    /\ mandatory = TRUE
    /\ requireWI = TRUE
    /\ ValidatorIdle
    /\ FlowIdle
    /\ ParserIdle
    /\ RaceIdle
    /\ OthersIdle
    /\ prpc = "idle"
    /\ autoArchive = TRUE
    /\ logDirExists \in BOOLEAN
    /\ logDir \in IF logDirExists THEN ContextDirectories \cup {NoFiles}
                                  ELSE {NoFiles}
    /\ logDirBefore = NoFiles
    /\ archive = NoFiles
    /\ archiveMonth = "none"
    /\ oldLogs = <<>>
    /\ cleaned = 0
    /\ archived = 0
    /\ errors = <<>>
    /\ pruneResult = NoPruneResult

ContextNext == GenerateContext

ContextSpec == ContextInit /\ [][ContextNext]_vars

\* ------------------------------ two invocations of cleanup_old_logs at once

\* An entry of the errors list of a concurrent call: the file and whether
\* the rename or unlink found it gone or failed on a file that is there.
ErrorEntry(name, why) == <<name, why>>

\* Lines 223 to 226 and the glob of line 231 of one call: it returns when
\* the directory is missing, else it reads the entries of the directory, all
\* at once and in any order.
CleanupGlob(p) ==
    /\ cpc[p] = "start"
    /\ IF ~logDirExists
       THEN /\ cpc' = [cpc EXCEPT ![p] = "returned"]
            /\ UNCHANGED cTodo
       ELSE \E globbed \in ListOfSet(DOMAIN logDir) :
            /\ cpc' = [cpc EXCEPT ![p] = "scan"]
            /\ cTodo' = [cTodo EXCEPT ![p] = globbed]
    /\ UNCHANGED <<policyVars, validatorVars, flowVars, parserVars, pruneVars,
                   raceVars, setupVars, queryVars, contextVars, cOld, cMonth,
                   cResult>>

\* One turn of the comprehension of line 231: f.stat() of the next file,
\* which raises when the file is no longer there, no try around it; after
\* the last file the early return of line 234 when old_logs is empty.
CleanupStat(p) ==
    /\ cpc[p] = "scan"
    /\ IF cTodo[p] = <<>>
       THEN /\ cpc' = [cpc EXCEPT ![p] = IF cOld[p] = <<>> THEN "returned"
                                                          ELSE "mkdir"]
            /\ UNCHANGED <<cTodo, cOld>>
       ELSE LET f == Head(cTodo[p])
            IN  /\ cTodo' = [cTodo EXCEPT ![p] = Tail(cTodo[p])]
                /\ IF f \notin DOMAIN logDir
                   THEN /\ cpc' = [cpc EXCEPT ![p] = "raised"]
                        /\ UNCHANGED cOld
                   ELSE /\ cOld' = [cOld EXCEPT ![p] =
                                       IF IsOldLog(logDir[f], PruneDay)
                                       THEN Append(cOld[p], f) ELSE cOld[p]]
                        /\ UNCHANGED cpc
    /\ UNCHANGED <<policyVars, validatorVars, flowVars, parserVars, pruneVars,
                   raceVars, setupVars, queryVars, contextVars, cMonth,
                   cResult>>

\* Lines 237 and 238 of one call: the archive directory of the month is
\* made, or the mkdir raises, no try around it.
CleanupMkdir(p) ==
    /\ cpc[p] = "mkdir"
    /\ \E month \in Months, mkdir \in {"ok", "raise"} :
        /\ cMonth' = [cMonth EXCEPT ![p] = month]
        /\ cpc' = [cpc EXCEPT ![p] = IF mkdir = "ok" THEN "loop" ELSE "raised"]
    /\ UNCHANGED <<policyVars, validatorVars, flowVars, parserVars, pruneVars,
                   raceVars, setupVars, queryVars, contextVars, cTodo, cOld,
                   cResult>>

\* One turn of the loop of one call: the rename or unlink of a file that is
\* no longer there raises, and so may one of a file that is there; the except
\* clause appends the error. After the last turn the call returns.
CleanupRecord(p) ==
    /\ cpc[p] = "loop"
    /\ cOld[p] # <<>>
    /\ \E attempt \in {"ok", "raise"} :
        LET log_file == Head(cOld[p])
            there == log_file \in DOMAIN logDir
            ok == there /\ attempt = "ok"
            was == cResult[p]
        IN
        /\ logDir' = IF ok THEN RemoveFile(logDir, log_file) ELSE logDir
        /\ archive' = IF ok /\ autoArchive
                      THEN WriteFile(archive, <<cMonth[p], log_file>>,
                                     logDir[log_file])
                      ELSE archive
        /\ cResult' = [cResult EXCEPT ![p] =
               [cleaned |-> IF ok /\ ~autoArchive THEN was.cleaned + 1
                                                  ELSE was.cleaned,
                archived |-> IF ok /\ autoArchive THEN was.archived + 1
                                                  ELSE was.archived,
                errors |-> IF ok THEN was.errors
                           ELSE Append(was.errors,
                                       ErrorEntry(log_file,
                                                  IF there THEN "failed"
                                                           ELSE "gone"))]]
        /\ cOld' = [cOld EXCEPT ![p] = Tail(cOld[p])]
        /\ cpc' = [cpc EXCEPT ![p] = IF Tail(cOld[p]) = <<>> THEN "returned"
                                                             ELSE "loop"]
    /\ UNCHANGED <<policyVars, validatorVars, flowVars, parserVars, raceVars,
                   setupVars, queryVars, contextVars, prpc, autoArchive,
                   logDirExists, logDirBefore, archiveMonth, oldLogs, cleaned,
                   archived, errors, pruneResult, cTodo, cMonth>>

\* Two cleanup_old_logs calls are about to run on one log directory, which
\* is missing or holds up to MaxFiles logs of the three ages, under either
\* archive policy; logDirBefore is the directory they start on.
CleanupInit ==
    /\ summary = <<>>
    /\ mandatory = TRUE
    /\ requireWI = TRUE
    /\ ValidatorIdle
    /\ FlowIdle
    /\ ParserIdle
    /\ RaceIdle
    /\ OthersIdle
    /\ prpc = "idle"
    /\ autoArchive \in BOOLEAN
    /\ logDirExists \in BOOLEAN
    /\ logDir \in IF logDirExists THEN DirectoriesOf(LogDays) ELSE {NoFiles}
    /\ logDirBefore = logDir
    /\ archive = NoFiles
    /\ archiveMonth = "none"
    /\ oldLogs = <<>>
    /\ cleaned = 0
    /\ archived = 0
    /\ errors = <<>>
    /\ pruneResult = NoPruneResult

CleanupNext ==
    \E p \in CleanupProcs :
        \/ CleanupGlob(p)
        \/ CleanupStat(p)
        \/ CleanupMkdir(p)
        \/ CleanupRecord(p)

CleanupSpec == CleanupInit /\ [][CleanupNext]_vars

\* --------------------------- two invocations of create_session_log at once

\* The longest record, in units of text.
MaxUnits == 3

\* The units of text the file object buffers before it writes them to the
\* file.
BufferUnits == 2

\* The record invocation p writes: its units, each marked with p.
RecordOf(p, len) == [k \in 1..len |-> <<p, k>>]

\* The content of a file after `chunk` was written at offset pos: the units
\* there are replaced, the file grows when the chunk goes past its end, and a
\* gap between the end and pos reads as zeros.
WriteAt(content, pos, chunk) ==
    [i \in 1..(IF Len(content) > pos + Len(chunk)
               THEN Len(content) ELSE pos + Len(chunk)) |->
        IF i > pos /\ i <= pos + Len(chunk) THEN chunk[i - pos]
        ELSE IF i <= Len(content) THEN content[i]
        ELSE "zero"]

\* create_session_log up to the file name: mkdir(exist_ok=True) and strftime
\* of the clock.
RaceName(p) ==
    /\ rpc[p] = "start"
    /\ rname' = [rname EXCEPT ![p] = LogFileName(clock, NoUpdates)]
    /\ rpc' = [rpc EXCEPT ![p] = "named"]
    /\ UNCHANGED <<policyVars, validatorVars, flowVars, parserVars, pruneVars,
                   otherVars,
                   rlen, rpos, raceDir>>

\* open(log_file, "w"): the file is created or cut to length 0, the offset of
\* the new file object is 0.
RaceOpen(p) ==
    /\ rpc[p] = "named"
    /\ raceDir' = WriteFile(raceDir, rname[p], <<>>)
    /\ rpos' = [rpos EXCEPT ![p] = 0]
    /\ rpc' = [rpc EXCEPT ![p] = "open"]
    /\ UNCHANGED <<policyVars, validatorVars, flowVars, parserVars, pruneVars,
                   otherVars,
                   rname, rlen>>

\* The f.write calls filled the buffer: it is written to the file at the
\* offset of this file object.
RaceFlush(p) ==
    /\ rpc[p] = "open"
    /\ rlen[p] - rpos[p] > BufferUnits
    /\ raceDir' = [raceDir EXCEPT ![rname[p]] =
                      WriteAt(@, rpos[p],
                              SubSeq(RecordOf(p, rlen[p]), rpos[p] + 1,
                                     rpos[p] + BufferUnits))]
    /\ rpos' = [rpos EXCEPT ![p] = @ + BufferUnits]
    /\ UNCHANGED <<policyVars, validatorVars, flowVars, parserVars, pruneVars,
                   otherVars,
                   rpc, rname, rlen>>

\* The end of the `with` block: what is left in the buffer is written and
\* the file is closed.
RaceClose(p) ==
    /\ rpc[p] = "open"
    /\ rlen[p] - rpos[p] <= BufferUnits
    /\ raceDir' = [raceDir EXCEPT ![rname[p]] =
                      WriteAt(@, rpos[p],
                              SubSeq(RecordOf(p, rlen[p]), rpos[p] + 1,
                                     rlen[p]))]
    /\ rpos' = [rpos EXCEPT ![p] = rlen[p]]
    /\ rpc' = [rpc EXCEPT ![p] = "closed"]
    /\ UNCHANGED <<policyVars, validatorVars, flowVars, parserVars, pruneVars,
                   otherVars,
                   rname, rlen>>

\* Time passes while the two invocations run.
RaceTick ==
    /\ clock < MaxTick
    /\ \E p \in Invocations : rpc[p] # "closed"
    /\ clock' = clock + 1
    /\ UNCHANGED <<policyVars, validatorVars, parserVars, pruneVars,
                   otherVars, raceVars,
                   pc, autoRefresh, adapterStatus, integrations, idx, calls,
                   raised, successCount, updates, logs, result, exitCode,
                   runs, logOutcome, refreshOutcome, appendHist>>

\* Two processes call create_session_log on one log directory, each with a
\* record of its own length; nothing orders their steps.
RaceInit ==
    /\ summary = <<>>
    /\ mandatory = TRUE
    /\ requireWI = TRUE
    /\ ValidatorIdle
    /\ FlowIdle
    /\ ParserIdle
    /\ PruneIdle
    /\ OthersIdle
    /\ rpc = [p \in Invocations |-> "start"]
    /\ rname = [p \in Invocations |-> NoName]
    /\ rlen \in [Invocations -> 1..MaxUnits]
    /\ rpos = [p \in Invocations |-> 0]
    /\ raceDir = [n \in {} |-> <<>>]

RaceNext ==
    \/ \E p \in Invocations :
           RaceName(p) \/ RaceOpen(p) \/ RaceFlush(p) \/ RaceClose(p)
    \/ RaceTick

RaceSpec == RaceInit /\ [][RaceNext]_vars

\* ------------------------------------------------- the `setup` command

\* valid_integrations of the `setup` command.
ValidIntegrations == {"confluence", "jira", "github", "notion", "slack"}

\* The names given to `setup`: the five integrations, a known name in other
\* letters, an integration that does not exist, the name of the test and the
\* empty name.
SetupNames == ValidIntegrations \cup {"Jira", "gitlab", "invalid", ""}

\* Variant of IsValidIntegration: every name is taken.
IsValidIntegrationAnyName(name) == TRUE

\* integration in valid_integrations
IsValidIntegration(name) == name \in ValidIntegrations

\* setup_integration_credentials: the credential types it prompts for, in
\* order; a name of no branch is prompted for nothing.
CredentialTypes(name) ==
    CASE name \in {"confluence", "jira"} -> <<"username", "api_token">>
      [] name \in {"github", "notion", "slack"} -> <<"token">>
      [] OTHER -> <<>>

\* The credentials the keyring can hold.
KeyringKeys ==
    {<<name, type>> : name \in ValidIntegrations,
                      type \in {"username", "api_token", "token"}}

\* The credentials `setup` can store.
SetupKeys ==
    {k \in KeyringKeys : \E i \in DOMAIN CredentialTypes(k[1]) :
                             CredentialTypes(k[1])[i] = k[2]}

\* `contextflow setup <integration>` up to the first prompt: the name is
\* checked, an invalid one is reported and the command exits with status 1;
\* a valid one with nothing to prompt for ends with status 0.
SetupCommand ==
    /\ spc = "idle"
    /\ \E name \in SetupNames :
        /\ integration' = name
        /\ IF ~IsValidIntegration(name)
           THEN /\ setupOutput' = "Invalid integration"
                /\ setupExit' = 1
                /\ spc' = "done"
                /\ pending' = <<>>
           ELSE /\ pending' = CredentialTypes(name)
                /\ IF CredentialTypes(name) = <<>>
                   THEN /\ setupOutput' = "stored securely"
                        /\ setupExit' = 0
                        /\ spc' = "done"
                   ELSE /\ setupOutput' = "Setting up"
                        /\ setupExit' = -1
                        /\ spc' = "prompting"
    /\ keyringBefore' = keyring
    /\ UNCHANGED <<policyVars, validatorVars, flowVars, parserVars, pruneVars,
                   raceVars, queryVars, cleanupVars, contextVars,
                   prompted, keyring>>

\* prompt_for_credential of the next credential type: the prompt is answered
\* with a value or with nothing, or reading raises; a value is stored in the
\* keyring, which can raise; an exception ends the command with status 1.
PromptCredential ==
    /\ spc = "prompting"
    /\ pending # <<>>
    /\ \E answer \in {"value", "empty", "raise"},
          store \in {"ok", "raise"} :
        LET key == <<integration, Head(pending)>>
            failed == answer = "raise" \/ (answer = "value" /\ store = "raise")
            last == Tail(pending) = <<>>
        IN
        /\ prompted' = prompted \cup {key}
        /\ keyring' = IF answer = "value" /\ store = "ok"
                       THEN keyring \cup {key} ELSE keyring
        /\ pending' = IF failed THEN pending ELSE Tail(pending)
        /\ spc' = IF failed \/ last THEN "done" ELSE "prompting"
        /\ setupExit' = IF failed THEN 1 ELSE IF last THEN 0 ELSE -1
        /\ setupOutput' = IF failed THEN "Error setting up"
                           ELSE IF last THEN "stored securely"
                           ELSE "Credential prompt"
    /\ UNCHANGED <<policyVars, validatorVars, flowVars, parserVars, pruneVars,
                   raceVars, queryVars, cleanupVars, contextVars,
                   integration, keyringBefore>>

\* One invocation of `setup`, the keyring holding any of the credentials an
\* earlier invocation can have stored.
SetupInit ==
    /\ summary = <<>>
    /\ mandatory = TRUE
    /\ requireWI = TRUE
    /\ ValidatorIdle
    /\ FlowIdle
    /\ ParserIdle
    /\ PruneIdle
    /\ RaceIdle
    /\ spc = "idle"
    /\ integration = ""
    /\ pending = <<>>
    /\ prompted = {}
    /\ keyring \in SUBSET SetupKeys
    /\ keyringBefore = {}
    /\ setupExit = -1
    /\ setupOutput = "none"
    /\ QueryIdle
    /\ CleanupIdle
    /\ ContextIdle

SetupNext == SetupCommand \/ PromptCredential

SetupSpec == SetupInit /\ [][SetupNext]_vars

\* --------------------------------------------------------------- the types

\* The values the variables take.
TypeOK ==
    /\ summary \in Seq(STRING)
    /\ mandatory \in BOOLEAN
    /\ requireWI \in BOOLEAN
    /\ vpc \in {"input", "validated", "enforced"}
    /\ validation.valid \in BOOLEAN
    /\ enforcement.ret \in BOOLEAN
    /\ enforcement.validations \in {0, 1}
    /\ pc \in {"idle", "parse", "fanout", "log", "refresh", "done"}
    /\ autoRefresh \in BOOLEAN
    /\ adapterStatus \in [AdapterSet -> AdapterStatuses]
    /\ integrations = InitializeIntegrations(adapterStatus)
    /\ idx \in 1..(Len(integrations) + 1)
    /\ calls \in [AdapterSet -> Nat]
    /\ raised \subseteq AdapterSet
    /\ successCount \in 0..Len(integrations)
    /\ updates.timestamp \in Nat \X Nat \X Nat
    /\ \A n \in DOMAIN logs : logs[n].complete \in BOOLEAN
    /\ clock \in StartTick..MaxTick
    /\ result \in {"none", "True", "False"}
    /\ exitCode \in {-1, 0, 1}
    /\ runs \in Nat
    /\ logOutcome \in LogOutcomes \cup {"none"}
    /\ refreshOutcome \in {"none", "ok", "failed"}
    /\ \A i \in DOMAIN appendHist : appendHist[i].at \in StartTick..MaxTick
    /\ ppc \in {"input", "parsed", "reparsed", "logged"}
    /\ previous.timestamp \in Nat \X Nat \X Nat
    /\ prpc \in {"idle", "loop", "returned", "raised"}
    /\ autoArchive \in BOOLEAN
    /\ logDirExists \in BOOLEAN
    /\ DOMAIN logDir \subseteq LogNames \cup AppendedNames \cup 1..MaxRecords
    /\ DOMAIN logDirBefore \subseteq LogNames \cup AppendedNames
    /\ DOMAIN archive \subseteq Months \X LogNames
    /\ archiveMonth \in Months \cup {"none"}
    /\ Range(oldLogs) \subseteq LogNames
    /\ cleaned \in 0..MaxFiles
    /\ archived \in 0..MaxFiles
    /\ Range(errors) \subseteq LogNames
    /\ pruneResult.cleaned \in 0..MaxFiles
    /\ rpc \in [Invocations -> {"start", "named", "open", "closed"}]
    /\ rlen \in [Invocations -> 1..MaxUnits]
    /\ \A p \in Invocations : rpos[p] \in 0..rlen[p]
    /\ \A n \in DOMAIN raceDir : Len(raceDir[n]) <= MaxUnits
    /\ spc \in {"idle", "prompting", "done", "exited"}
    /\ keyring \subseteq SetupKeys
    /\ query.op \in {"none", "logs", "statistics", "maintenance"}
    /\ previousPrune.cleaned \in 0..MaxFiles
    /\ pruneCalls \in 0..MaxPrunes
    /\ logsAppended \in 0..MaxAppends
    /\ cpc \in [CleanupProcs -> {"start", "scan", "mkdir", "loop", "returned",
                                 "raised"}]
    /\ \A p \in CleanupProcs : cResult[p].cleaned \in 0..MaxFiles
    /\ context.op \in {"none", "generated"}

\* ------------------------------------------------- what the claims speak of

\* The text holds a work-item reference: a letter, a hyphen and a digit in a
\* row (the shortest match of the letters-hyphen-digits pattern as the code
\* compiles it, without regard to case; issue-N and task-N are instances), or
\* a hash and a digit.
ContainsWorkItemToken(t) ==
    \E i \in 1..Len(t) :
        \/ /\ i + 1 <= Len(t)
           /\ t[i] = "#"
           /\ t[i + 1] \in Digits
        \/ /\ i + 2 <= Len(t)
           /\ IsLetter(t[i])
           /\ t[i + 1] = "-"
           /\ t[i + 2] \in Digits

\* The length of the text less its leading and trailing whitespace.
TrimmedLength(t) ==
    LET leading  == Cardinality({i \in DOMAIN t :
                                    \A k \in 1..i : t[k] \in Whitespace})
        trailing == Cardinality({i \in DOMAIN t :
                                    \A k \in i..Len(t) : t[k] \in Whitespace})
    IN  IF leading = Len(t) THEN 0 ELSE Len(t) - leading - trailing

\* An action word occurs in the text, in any case.
MentionsActionWord(t) ==
    \E w \in ActionWords : \E i \in 1..Len(t) :
        /\ i + Len(w) - 1 <= Len(t)
        /\ \A k \in 1..Len(w) : LowerChar(t[i + k - 1]) = w[k]

\* A file-like token occurs in the text: word character, dot, word character,
\* or one of the directory prefixes followed by a word character.
MentionsFile(t) ==
    \/ \E i \in 1..Len(t) :
           /\ i + 2 <= Len(t)
           /\ IsWord(t[i])
           /\ t[i + 1] = "."
           /\ IsWord(t[i + 2])
    \/ \E p \in FilePrefixes : \E i \in 1..Len(t) :
           /\ i + Len(p) <= Len(t)
           /\ SubSeq(t, i, i + Len(p) - 1) = p
           /\ IsWord(t[i + Len(p)])

\* The second a log file's name denotes.
NameSecond(name) == name[1] * SecondsPerMinute + name[2]

\* update_session_documentation ran in this invocation and has returned.
UpdateReturned == pc = "done" /\ updates # NoUpdates

\* The log directory holds a record written by this invocation.
RecordOfThisRun == \E n \in DOMAIN logs : logs[n].run = runs

\* C1: in the update flow the compliance validator gates persistence: for a
\* summary that validate rejects under mandatorySessionUpdates and
\* requireWorkItemReferences, no session log record is written and no tracker
\* adapter is called.
C1_ValidatorGatesUpdate ==
    (/\ pc # "idle"
     /\ mandatory
     /\ requireWI
     /\ ~validate_session_update(summary, requireWI).valid)
    => /\ ~RecordOfThisRun
       /\ \A a \in AdapterSet : calls[a] = 0

\* C2: validate returns valid = false if and only if work-item references are
\* required and the summary holds none; errors is non-empty exactly when
\* valid = false, so warnings and suggestions never make the result invalid.
C2_ValidIffWorkItemRule ==
    vpc = "validated" =>
        /\ (validation.valid = FALSE)
               <=> (requireWI /\ ~ContainsWorkItemToken(summary))
        /\ (validation.errors # <<>>) <=> (validation.valid = FALSE)

\* A summary with a work item that is short, has no action word and no file:
\* a warning and two suggestions, and the result is valid.
C2_Witness ==
    /\ vpc = "validated"
    /\ requireWI
    /\ ContainsWorkItemToken(summary)
    /\ validation.valid
    /\ validation.errors = <<>>
    /\ validation.warnings # <<>>
    /\ Len(validation.suggestions) = 2

\* C3: the four rules are evaluated independently: one error iff work items
\* are required and missing, one warning iff the trimmed length is below 20,
\* the action-word suggestion iff no action word, then the file suggestion iff
\* no file-like token, whatever the other rules found.
C3_RulesIndependent ==
    vpc = "validated" =>
        /\ validation.errors =
               IF requireWI /\ ~ContainsWorkItemToken(summary)
               THEN <<ErrWorkItems>> ELSE <<>>
        /\ validation.warnings =
               IF TrimmedLength(summary) < MinSummaryLength
               THEN <<WarnShort>> ELSE <<>>
        /\ validation.suggestions =
               (IF ~MentionsActionWord(summary)
                THEN <<SuggestActionWords>> ELSE <<>>)
               \o (IF ~MentionsFile(summary) THEN <<SuggestFiles>> ELSE <<>>)

\* validate("short") with work items required: the error, the warning and
\* both suggestions together.
C3_Witness ==
    /\ vpc = "validated"
    /\ requireWI
    /\ summary = ExampleShort
    /\ validation.errors = <<ErrWorkItems>>
    /\ validation.warnings = <<WarnShort>>
    /\ validation.suggestions = <<SuggestActionWords, SuggestFiles>>

\* C4, as stated: with mandatorySessionUpdates, enforceCompliance returns the
\* valid flag of validate and surfaces every error, warning and suggestion of
\* validate whatever the flag is.
C4_SurfacesEverything ==
    (vpc = "enforced" /\ mandatory) =>
        LET v == validate_session_update(summary, requireWI) IN
        /\ enforcement.ret = v.valid
        /\ enforcement.notified =
               [errors |-> v.errors, warnings |-> v.warnings,
                suggestions |-> v.suggestions]

\* C4, amended: with mandatorySessionUpdates, enforceCompliance returns the
\* valid flag of validate; on a rejected summary it surfaces the errors and
\* nothing else, on an accepted one the warnings and the suggestions.
C4_SurfacesByVerdict ==
    (vpc = "enforced" /\ mandatory) =>
        LET v == validate_session_update(summary, requireWI) IN
        /\ enforcement.ret = v.valid
        /\ enforcement.validations = 1
        /\ enforcement.notified.errors = v.errors
        /\ v.valid => /\ enforcement.notified.warnings = v.warnings
                      /\ enforcement.notified.suggestions = v.suggestions
        /\ ~v.valid => /\ enforcement.notified.warnings = <<>>
                       /\ enforcement.notified.suggestions = <<>>

\* A rejected summary that also draws a warning and a suggestion: only the
\* error is surfaced.
C4_Witness ==
    /\ vpc = "enforced"
    /\ mandatory
    /\ ~enforcement.ret
    /\ enforcement.notified.errors = <<ErrWorkItems>>
    /\ TrimmedLength(summary) < MinSummaryLength
    /\ ~MentionsActionWord(summary)
    /\ enforcement.notified.warnings = <<>>

\* C5: without mandatorySessionUpdates, enforceCompliance returns true for
\* every summary, runs no validation and surfaces nothing.
C5_NotMandatoryAccepts ==
    (vpc = "enforced" /\ ~mandatory) =>
        /\ enforcement.ret = TRUE
        /\ enforcement.validations = 0
        /\ enforcement.notified = NoNotification

\* A summary validate would reject is accepted when updates are not
\* mandatory.
C5_Witness ==
    /\ vpc = "enforced"
    /\ ~mandatory
    /\ requireWI
    /\ ~ContainsWorkItemToken(summary)
    /\ enforcement.ret

\* C6: update_session_documentation never raises and returns True if and only
\* if the session log record was persisted, whatever the adapters and the
\* context refresh did.
C6_SuccessIffPersisted ==
    /\ result \in {"none", "True", "False"}
    /\ UpdateReturned =>
           /\ result \in {"True", "False"}
           /\ (result = "True")
                  <=> (\E n \in DOMAIN logs :
                           logs[n].run = runs /\ logs[n].complete)

\* Every adapter raised and the context refresh failed, and the update still
\* reports success because the log was written.
C6_Witness ==
    /\ UpdateReturned
    /\ result = "True"
    /\ raised = AdapterSet
    /\ refreshOutcome = "failed"
    /\ \E n \in DOMAIN logs : logs[n].run = runs /\ logs[n].complete

\* C7: update_from_session is called exactly once on each adapter that was
\* enabled and initialised, never on another and never again; an adapter's
\* exception keeps neither the remaining adapters from being called nor the
\* log from being written.
C7_OncePerReadyAdapter ==
    /\ \A a \in AdapterSet :
           /\ calls[a] <= 1
           /\ calls[a] = 1 => adapterStatus[a] = "ready"
    /\ (pc \in {"log", "refresh"} \/ UpdateReturned) =>
           \A a \in AdapterSet : adapterStatus[a] = "ready" => calls[a] = 1
    /\ UpdateReturned => logOutcome # "none"

\* The first adapter raised, the second is disabled, the third was still
\* called and the log was written.
C7_Witness ==
    /\ UpdateReturned
    /\ adapterStatus["jira"] = "disabled"
    /\ raised = {"confluence"}
    /\ calls = [a \in AdapterSet |-> IF a = "jira" THEN 0 ELSE 1]
    /\ logOutcome = "written"

\* C8, as stated: the log record is appended before the fan-out: whenever an
\* adapter has received the update, the update's log record exists.
C8_LogBeforeFanout ==
    (\E a \in AdapterSet : calls[a] > 0) =>
        \E n \in DOMAIN logs : logs[n].run = runs /\ logs[n].complete

\* C8, amended: the fan-out comes before the append: while adapters are being
\* called the update has no log record, and once create_session_log has run
\* (or failed) every initialised adapter has received the update.
C8_FanoutBeforeLog ==
    /\ pc \in {"parse", "fanout"} => (logOutcome = "none" /\ ~RecordOfThisRun)
    /\ (logOutcome # "none" \/ RecordOfThisRun) =>
           \A a \in AdapterSet : adapterStatus[a] = "ready" => calls[a] = 1

\* An update whose log write failed had already been pushed to all three
\* trackers.
C8_Witness ==
    /\ logOutcome = "failed_open"
    /\ result = "False"
    /\ \A a \in AdapterSet : calls[a] = 1

\* C9: the log store keys records by second: the number of records is the
\* number of distinct seconds in which an append ran, and each record is that
\* of the last append of its second.
C9_OneRecordPerSecond ==
    LET appends == DOMAIN appendHist
        secondsAppended == {SecondOf(appendHist[i].at) : i \in appends}
    IN  /\ Cardinality(DOMAIN logs) = Cardinality(secondsAppended)
        /\ \A n \in DOMAIN logs :
               LET same == {i \in appends :
                               SecondOf(appendHist[i].at) = NameSecond(n)}
               IN  /\ same # {}
                   /\ LET last == CHOOSE i \in same : \A j \in same : j <= i
                      IN  /\ logs[n].run = appendHist[last].run
                          /\ logs[n].summary = appendHist[last].summary
                          /\ logs[n].timestamp = appendHist[last].timestamp

\* Two appends in one second with different summaries: one record, the second
\* update's.
C9_Witness ==
    /\ Len(appendHist) = 2
    /\ SecondOf(appendHist[1].at) = SecondOf(appendHist[2].at)
    /\ appendHist[1].summary # appendHist[2].summary
    /\ Cardinality(DOMAIN logs) = 1
    /\ \A n \in DOMAIN logs : logs[n].summary = appendHist[2].summary

\* C10, as stated: the second in a record's file name is the second of the
\* timestamp in its body, the update's creation time.
C10_NameIsCreationSecond ==
    \A n \in DOMAIN logs :
        /\ n[1] = logs[n].timestamp[1]
        /\ n[2] = logs[n].timestamp[2]

\* C10, amended: the second in a record's file name is the second in which
\* create_session_log ran, and the timestamp in its body is that of the update
\* the append was given.
C10_NameIsWriteSecond ==
    \A n \in DOMAIN logs :
        \E i \in DOMAIN appendHist :
            /\ appendHist[i].run = logs[n].run
            /\ NameSecond(n) = SecondOf(appendHist[i].at)
            /\ logs[n].timestamp = appendHist[i].timestamp

\* A record written after an adapter call during which the second changed:
\* its name and its body disagree on the second.
C10_Witness ==
    \E n \in DOMAIN logs :
        /\ logs[n].complete
        /\ \E a \in AdapterSet : calls[a] = 1
        /\ logs[n].run = runs
        /\ <<n[1], n[2]>> # <<logs[n].timestamp[1], logs[n].timestamp[2]>>

\* ------------------------------------------ what the parser's claims speak of

\* No element occurs twice in the list.
NoRepeat(xs) == \A i, j \in DOMAIN xs : xs[i] = xs[j] => i = j

\* The word occurs in the text, letters compared without case.
MentionsWord(t, w) ==
    \E i \in 1..Len(t) :
        /\ i + Len(w) - 1 <= Len(t)
        /\ \A k \in 1..Len(w) : LowerChar(t[i + k - 1]) = w[k]

\* A path-like token occurs in the text: a path character, a dot and a
\* letter in a row, or src/ or docs/ followed by a path character.
MentionsPath(t) ==
    \/ \E i \in 1..Len(t) :
           /\ i + 2 <= Len(t)
           /\ t[i] \in FileChars
           /\ t[i + 1] = "."
           /\ IsLetter(t[i + 2])
    \/ \E prefix \in {PrefixSrc, PrefixDocs} : \E i \in 1..Len(t) :
           /\ i + Len(prefix) <= Len(t)
           /\ SubSeq(t, i, i + Len(prefix) - 1) = prefix
           /\ t[i + Len(prefix)] \in FileChars

\* The trigger keywords of the four categories.
TriggerWords(category) ==
    CASE category = "feature" ->
            {<<"i","m","p","l","e","m","e","n","t","e","d">>,
             <<"a","d","d","e","d">>,
             <<"c","r","e","a","t","e","d">>,
             <<"n","e","w"," ","f","e","a","t","u","r","e">>,
             <<"e","n","h","a","n","c","e","m","e","n","t">>}
      [] category = "bugfix" ->
            {<<"f","i","x","e","d">>,
             <<"r","e","s","o","l","v","e","d">>,
             <<"b","u","g">>,
             <<"i","s","s","u","e">>,
             <<"e","r","r","o","r">>}
      [] category = "architecture" ->
            {<<"a","r","c","h","i","t","e","c","t","u","r","e">>,
             <<"d","e","s","i","g","n">>,
             <<"r","e","f","a","c","t","o","r">>,
             <<"r","e","s","t","r","u","c","t","u","r","e">>}
      [] category = "documentation" ->
            {<<"d","o","c","u","m","e","n","t","a","t","i","o","n">>,
             <<"d","o","c","s">>,
             <<"r","e","a","d","m","e">>,
             <<"g","u","i","d","e">>}

\* The feature nouns a feature line holds besides its action word.
FeatureNouns ==
    {<<"f","e","a","t","u","r","e">>,
     <<"c","o","m","p","o","n","e","n","t">>,
     <<"f","u","n","c","t","i","o","n">>,
     <<"e","n","d","p","o","i","n","t">>,
     <<"p","a","g","e">>}

\* The list of the parsed update that belongs to the category.
LinesOf(upd, category) ==
    CASE category = "feature" -> upd.features_added
      [] category = "bugfix" -> upd.bugs_fixed
      [] category = "architecture" -> upd.architecture_changes
      [] category = "documentation" -> upd.documentation_updates

\* The positions before the lines of the text: 0 and every line break.
LineBreaks(t) == {0} \cup {i \in DOMAIN t : t[i] = "\n"}

\* The line of the text that starts behind position b.
LineAt(t, b) ==
    LET ends == {e \in (b + 1)..(Len(t) + 1) : e = Len(t) + 1 \/ t[e] = "\n"}
    IN  SubSeq(t, b + 1, (CHOOSE e \in ends : \A f \in ends : e <= f) - 1)

\* The line holds a line keyword of the category and, for features, a
\* feature noun as well.
HoldsLineWords(category, line) ==
    /\ \E w \in LineTerms(category) : MentionsWord(line, w)
    /\ category = "feature" => \E w \in FeatureNouns : MentionsWord(line, w)

\* s is the line less its leading and trailing whitespace, and not empty.
IsTrimOf(s, line) ==
    /\ s # <<>>
    /\ s[1] \notin Whitespace
    /\ s[Len(s)] \notin Whitespace
    /\ \E a \in 1..Len(line) :
        /\ a + Len(s) - 1 <= Len(line)
        /\ SubSeq(line, a, a + Len(s) - 1) = s
        /\ \A k \in 1..(a - 1) : line[k] \in Whitespace
        /\ \A k \in (a + Len(s))..Len(line) : line[k] \in Whitespace

\* The list of the category holds one element for each line of the summary
\* that holds the category's line keywords, in the order of the lines, each
\* the line less its surrounding whitespace.
CollectsEveryLine(upd, category) ==
    LET t == upd.summary
        qualifying == {b \in LineBreaks(t) :
                          HoldsLineWords(category, LineAt(t, b))}
        lines == LinesOf(upd, category)
    IN  /\ Len(lines) = Cardinality(qualifying)
        /\ \A b \in qualifying :
               IsTrimOf(lines[Cardinality({c \in qualifying : c <= b})],
                        LineAt(t, b))

\* The record of the update in the log directory.
RecordOfUpdate == logs[LogFileName(clock, updates)]

\* The positions of the sections with the title in the record.
SectionsTitled(rec, title) ==
    {k \in DOMAIN rec.sections : rec.sections[k].title = title}

\* ------------------------------------------- claims on parsing and records

\* C11: the record create_session_log persists carries counts equal to the
\* number of distinct work items and files and to the number of feature and
\* bug-fix lines of the update, and it holds the section of a list exactly
\* when the list is not empty, once, enumerating exactly the list's elements.
C11_RecordMatchesUpdate ==
    (ppc = "logged" /\ logOutcome = "written") =>
        /\ RecordOfUpdate.work_items = Cardinality(Range(updates.work_items))
        /\ RecordOfUpdate.files_changed =
               Cardinality(Range(updates.files_changed))
        /\ RecordOfUpdate.features_added = Len(updates.features_added)
        /\ RecordOfUpdate.bugs_fixed = Len(updates.bugs_fixed)
        /\ \A title \in Range(SectionTitles) :
            LET found == SectionsTitled(RecordOfUpdate, title)
            IN  /\ Cardinality(found) <= 1
                /\ found # {} <=> SectionItems(updates, title) # <<>>
                /\ \A k \in found :
                       RecordOfUpdate.sections[k].items =
                           SectionItems(updates, title)

\* A record was written for a summary that names one work item twice and
\* holds a bug-fix line but no file and no feature line: the count is one and
\* two of the four sections are there.
C11_Witness ==
    /\ ppc = "logged"
    /\ logOutcome = "written"
    /\ Len(ExtendWorkItems(summary, 1)) = 2
    /\ RecordOfUpdate.work_items = 1
    /\ RecordOfUpdate.files_changed = 0
    /\ RecordOfUpdate.features_added = 0
    /\ RecordOfUpdate.bugs_fixed = 1
    /\ Len(RecordOfUpdate.sections) = 2

\* C16: parse_session_summary returns for every summary, and work_items,
\* files_changed and categories hold no element twice, only tokens of the
\* summary, and nothing when the summary holds no token of the kind; the
\* work-item scenario yields PROJ-123, #456 and issue-789, once each.
C16_ParsedListsAreSets ==
    /\ ppc = "input" => ParseAfter(previous, summary, clock) # {}
    /\ ppc = "parsed" =>
        /\ NoRepeat(updates.work_items)
        /\ NoRepeat(updates.files_changed)
        /\ NoRepeat(updates.categories)
        /\ \A w \in Range(updates.work_items) \cup Range(updates.files_changed) :
               Contains(summary, w)
        /\ ~ContainsWorkItemToken(summary) => updates.work_items = <<>>
        /\ ~MentionsPath(summary) => updates.files_changed = <<>>
        /\ (\A c \in Range(Categories) : \A w \in TriggerWords(c) :
                ~MentionsWord(summary, w)) => updates.categories = <<>>
        /\ summary = ExampleWorkItems =>
               Range(updates.work_items) =
                   {<<"P","R","O","J","-","1","2","3">>,
                    <<"#","4","5","6">>,
                    <<"i","s","s","u","e","-","7","8","9">>}

\* The work-item scenario was parsed: issue-789 is matched by two patterns
\* and kept once.
C16_Witness ==
    /\ ppc = "parsed"
    /\ summary = ExampleWorkItems
    /\ Len(updates.work_items) = 3
    /\ Len(ExtendWorkItems(summary, 1)) = 4

\* C17: every work item extracted is a key of uppercase letters, a hyphen and
\* digits, or #N, issue-N or task-N; a lowercase key such as proj-123 is not
\* extracted, and a summary that holds nothing else yields no work items.
C17_LowercaseKeyNotExtracted ==
    ppc = "parsed" =>
        \A w \in Range(updates.work_items) :
            \/ WorkItemMatchEnd("jira", w, 1, FALSE) = Len(w)
            \/ WorkItemMatchEnd("hash", w, 1, TRUE) = Len(w)
            \/ WorkItemMatchEnd("issue", w, 1, TRUE) = Len(w)
            \/ WorkItemMatchEnd("task", w, 1, TRUE) = Len(w)

\* C18: a second parse of the same summary at the same clock reading returns
\* the same timestamp, the same work items, files and categories as sets and
\* the same lines of each category; a second parse of another summary returns
\* what a first parse of that summary can return; and the second result holds
\* only tokens of the summary it parsed.
C18_ParseIdempotent ==
    ppc = "reparsed" =>
        /\ summary = previous.summary =>
            /\ updates.timestamp = previous.timestamp
            /\ Range(updates.work_items) = Range(previous.work_items)
            /\ Range(updates.files_changed) = Range(previous.files_changed)
            /\ Range(updates.categories) = Range(previous.categories)
            /\ \A c \in Range(Categories) :
                   LinesOf(updates, c) = LinesOf(previous, c)
            /\ updates.summary = previous.summary
        /\ summary # previous.summary =>
               updates \in parse_session_summary(summary, clock)
        /\ \A w \in Range(updates.work_items) \cup Range(updates.files_changed) :
               Contains(summary, w)

\* The same summary was parsed twice and the two results list the same two
\* work items in different orders.
C18_Witness ==
    /\ ppc = "reparsed"
    /\ summary = previous.summary
    /\ Len(updates.work_items) = 2
    /\ updates.work_items # previous.work_items

\* C19: each of the four categories is in categories exactly when one of its
\* trigger keywords occurs in the summary, letters compared without case;
\* the feature scenario yields feature, the bugfix scenario bugfix, and a
\* summary with no keyword no category.
C19_CategoryIffTrigger ==
    ppc = "parsed" =>
        /\ \A c \in Range(Categories) :
               c \in Range(updates.categories) <=>
                   \E w \in TriggerWords(c) : MentionsWord(summary, w)
        /\ Range(updates.categories) \subseteq Range(Categories)
        /\ summary = ExampleFeature => "feature" \in Range(updates.categories)
        /\ summary = ExampleBugfix => "bugfix" \in Range(updates.categories)
        /\ summary = ExampleShort => updates.categories = <<>>

\* A summary was parsed into feature, bugfix and documentation but not
\* architecture, its keywords written with capitals.
C19_Witness ==
    /\ ppc = "parsed"
    /\ summary = ExampleLines
    /\ Range(updates.categories) = {"feature", "bugfix", "documentation"}

\* C20 as stated: for every category the list holds each line of the summary
\* with the category's line keywords, stripped, in the order of the lines.
C20_EveryQualifyingLine ==
    ppc = "parsed" =>
        \A c \in Range(Categories) : CollectsEveryLine(updates, c)

\* C20: for a category that is in categories the list holds each line of the
\* summary with the category's line keywords (for features an action word and
\* a feature noun), stripped, never empty, in the order of the lines, equal
\* lines kept; for a category that is not in categories the list is empty.
C20_QualifyingLinesOfPresent ==
    ppc = "parsed" =>
        \A c \in Range(Categories) :
            IF c \in Range(updates.categories)
            THEN CollectsEveryLine(updates, c)
            ELSE LinesOf(updates, c) = <<>>

\* The five-line scenario was parsed: three feature lines in the order of the
\* lines, the second one stripped of a tab and two blanks, and one line that
\* is both a bug fix and a documentation update.
C20_Witness ==
    /\ ppc = "parsed"
    /\ summary = ExampleLines
    /\ Len(updates.features_added) = 3
    /\ updates.features_added[2] = <<"A","d","d","e","d"," ","n","e","w"," ","p","a","g","e">>
    /\ Len(updates.bugs_fixed) = 1
    /\ updates.bugs_fixed = updates.documentation_updates
    /\ updates.architecture_changes = <<>>

\* C30: a line list that is not empty has its category in categories, and a
\* summary that holds no trigger keyword of a category, whatever line
\* keywords (new, corrected, migrate, manual) its lines hold, has an empty
\* list for it; this holds of a first parse and of a second one.
C30_LinesImplyCategory ==
    ppc \in {"parsed", "reparsed"} =>
        \A c \in Range(Categories) :
            /\ LinesOf(updates, c) # <<>> => c \in Range(updates.categories)
            /\ (\A w \in TriggerWords(c) : ~MentionsWord(summary, w)) =>
                   LinesOf(updates, c) = <<>>

\* A one-line summary holds `new` and a feature noun and no trigger keyword
\* of the feature category: the line is not collected.
C30_Witness ==
    /\ ppc = "parsed"
    /\ LineBreaks(summary) = {0}
    /\ HoldsLineWords("feature", summary)
    /\ MentionsWord(summary, <<"n","e","w">>)
    /\ "feature" \notin Range(updates.categories)
    /\ updates.features_added = <<>>

\* C26: with work-item references required, validate_session_update reports
\* the missing-work-items error for a summary exactly when
\* parse_session_summary of the same summary returns no work item.
C26_ValidatorAgreesWithParser ==
    (vpc = "validated" /\ ppc = "parsed" /\ requireWI) =>
        (ErrWorkItems \in Range(validation.errors)
            <=> updates.work_items = <<>>)

\* A summary whose only work item is a lowercase key was validated and
\* parsed: no error is reported and the key is extracted.
C26_Witness ==
    /\ vpc = "validated"
    /\ ppc = "parsed"
    /\ requireWI
    /\ summary = ExampleLowercaseKey
    /\ validation.errors = <<>>
    /\ updates.work_items = <<ExampleLowercaseKey>>

\* C25: `setup` given a name that is none of confluence, jira, github, notion
\* and slack reports `Invalid integration` and exits with status 1; it prompts
\* for no credential and leaves the keyring as it was.
C25_SetupRejectsUnknownName ==
    (spc # "idle" /\ integration \notin ValidIntegrations) =>
        /\ spc = "done"
        /\ setupOutput = "Invalid integration"
        /\ setupExit = 1
        /\ prompted = {}
        /\ keyring = keyringBefore

\* `setup Jira`, the name of an integration in other letters, was rejected
\* while the keyring held the credentials of jira.
C25_Witness ==
    /\ spc = "done"
    /\ integration = "Jira"
    /\ setupExit = 1
    /\ setupOutput = "Invalid integration"
    /\ keyring = {<<"jira", "username">>, <<"jira", "api_token">>}

\* ------------------------------------------------------- claims on pruning

\* The records older than the retention when cleanup_old_logs was called.
Expired ==
    {n \in DOMAIN logDirBefore :
        PruneDay - logDirBefore[n].mtime > RetentionDays}

\* cleanup_old_logs has returned or raised.
PruneOver == prpc \in {"returned", "raised"}

\* C12: when cleanup_old_logs is over and no record failed, then under
\* auto_archive_logs exactly the expired records are in archive/<YYYY-MM>/,
\* as they were, and gone from the log directory, archived is their number
\* and cleaned is 0; otherwise exactly the expired records are gone, cleaned
\* is their number, archived is 0 and nothing is in the archive.
C12_PruneArchivesOrDeletes ==
    (PruneOver /\ errors = <<>>) =>
        /\ DOMAIN logDir = DOMAIN logDirBefore \ Expired
        /\ IF autoArchive
           THEN /\ DOMAIN archive = {archiveMonth} \X Expired
                /\ \A n \in Expired :
                       archive[<<archiveMonth, n>>] = logDirBefore[n]
                /\ pruneResult.archived = Cardinality(Expired)
                /\ pruneResult.cleaned = 0
           ELSE /\ archive = NoFiles
                /\ pruneResult.cleaned = Cardinality(Expired)
                /\ pruneResult.archived = 0

\* C13: cleanup_old_logs never raises; every expired record is processed,
\* each failure adding one entry to errors, so that on return archived,
\* cleaned and the entries of errors add up to the number of expired records.
C13_PruneNeverAborts ==
    /\ prpc # "raised"
    /\ prpc = "loop" =>
           archived + cleaned + Len(errors) + Len(oldLogs) =
               Cardinality(Expired)
    /\ prpc = "returned" =>
           pruneResult.archived + pruneResult.cleaned
               + Len(pruneResult.errors) = Cardinality(Expired)

\* C14: a record that is not older than the retention stays in the log
\* directory as it was and is not in the archive, while cleanup_old_logs runs
\* and after it returned or raised.
C14_RecentRecordsUntouched ==
    prpc # "idle" =>
        \A n \in DOMAIN logDirBefore :
            PruneDay - logDirBefore[n].mtime <= RetentionDays =>
                /\ n \in DOMAIN logDir
                /\ logDir[n] = logDirBefore[n]
                /\ \A month \in Months : <<month, n>> \notin DOMAIN archive

\* cleanup_old_logs returned after one expired record failed and another was
\* archived or deleted, and a record exactly the retention old is still
\* there.
C14_Witness ==
    /\ prpc = "returned"
    /\ Len(pruneResult.errors) = 1
    /\ pruneResult.archived + pruneResult.cleaned = 1
    /\ \E n \in DOMAIN logDir :
           PruneDay - logDirBefore[n].mtime = RetentionDays

\* ------------------------------------ claims on simultaneous invocations

\* C15: when two invocations of create_session_log that computed the same
\* file name have both closed the file, the log directory holds that one
\* file and its content is the complete record of one of the two.
C15_LastWriterWins ==
    (/\ \A p \in Invocations : rpc[p] = "closed"
     /\ rname[1] = rname[2]) =>
        /\ DOMAIN raceDir = {rname[1]}
        /\ \E p \in Invocations : raceDir[rname[1]] = RecordOf(p, rlen[p])
\* ------------------------------------------- claims on the update command

\* C29 as stated: with mandatory_session_updates false the command writes no
\* record, calls no adapter, refreshes nothing and exits with status 0; with
\* the flag true it exits non-zero exactly when update_session_documentation
\* returned False.
C29_ExitNonZeroIffUpdateFailed ==
    pc = "done" =>
        /\ ~mandatory =>
            /\ ~RecordOfThisRun
            /\ \A a \in AdapterSet : calls[a] = 0
            /\ refreshOutcome = "none"
            /\ exitCode = 0
        /\ mandatory => (exitCode # 0 <=> result = "False")

\* C29: with mandatory_session_updates false the command writes no record,
\* calls no adapter, refreshes nothing and exits with status 0; with the flag
\* true it exits non-zero whenever update_session_documentation returned
\* False and with status 0 only after it returned True; a non-zero exit
\* without a reported failure is either the SessionUpdater that could not be
\* constructed, with nothing written and no adapter called, or a reported
\* success after which the statistics could not be read.
C29_ExitStatusOfUpdate ==
    pc = "done" =>
        /\ exitCode \in {0, 1}
        /\ ~mandatory =>
            /\ ~RecordOfThisRun
            /\ \A a \in AdapterSet : calls[a] = 0
            /\ refreshOutcome = "none"
            /\ result = "none"
            /\ exitCode = 0
        /\ mandatory =>
            /\ result = "False" => exitCode = 1
            /\ exitCode = 0 => result = "True"
            /\ result = "none" =>
                /\ exitCode = 1
                /\ ~RecordOfThisRun
                /\ \A a \in AdapterSet : calls[a] = 0
                /\ refreshOutcome = "none"

\* The command ran with the flag false on a directory that holds an earlier
\* record: it exits with status 0 and the directory is as it was.
C29_Witness ==
    /\ pc = "done"
    /\ ~mandatory
    /\ exitCode = 0
    /\ logs # NoLogs
    /\ ~RecordOfThisRun

\* --------------------------------------------- claims on the context views

\* The list `short` is the beginning of the list `long`.
BeginsWith(long, short) ==
    /\ Len(short) <= Len(long)
    /\ \A i \in DOMAIN short : short[i] = long[i]

\* The logs of the directory modified less than `days` days before the
\* context was gathered.
LogsWithin(days) ==
    {n \in DOMAIN logDir : PruneDay - logDir[n].mtime < days}

\* C21: for any number of recent records and work items gathered, the
\* compact view lists at most 3 recent-change entries and at most 5 work
\* items, and the entries it lists are a prefix of those in the full view
\* written from the same gathering.
C21_CompactViewIsBoundedPrefix ==
    (context.op = "generated" /\ context.quick.written) =>
        /\ Len(context.quick.recent_changes) <= 3
        /\ Len(context.quick.work_items) <= 5
        /\ context.full.written =>
            /\ BeginsWith(context.full.recent_changes,
                          context.quick.recent_changes)
            /\ BeginsWith(context.full.work_items, context.quick.work_items)

\* Both views were written from a gathering of five recent changes and six
\* work items: the compact view lists three and five of them.
C21_Witness ==
    /\ context.op = "generated"
    /\ context.ret
    /\ Len(context.full.recent_changes) = 5
    /\ Len(context.full.work_items) = 6
    /\ Len(context.quick.recent_changes) = 3
    /\ Len(context.quick.work_items) = 5

\* C22: the full view is unbounded: for any number N of session records
\* inside the recent-changes window, the regenerated full view contains one
\* recent-change entry per such record (all N), and every work item
\* referenced by a record in the 14-day window. Records whose summary
\* section cannot be found are not counted among the N.
C22_FullViewListsEverything ==
    (context.op = "generated" /\ context.full.written) =>
        /\ Len(context.full.recent_changes) =
               Cardinality({n \in LogsWithin(7) : logDir[n].body.summary # <<>>})
        /\ Range(context.full.work_items) =
               UNION {logDir[n].body.items : n \in LogsWithin(14)}

\* --------------------------------------------------- claims on the listing

\* The records of the directory `dir` a listing chooses from: all of them,
\* or with --recent those modified less than seven days before the listing.
Listable(dir, recent) ==
    {n \in DOMAIN dir : ~recent \/ PruneDay - dir[n].mtime < 7}

\* C23: listing returns records sorted newest-first by modification time:
\* for any set of records, no record in the returned sequence is preceded by
\* one with an older modification time, and when a count limit N is applied
\* the result is the N most recently modified records (all of them when
\* there are fewer than N); the newest record is the one the statistics
\* report as the last session.
C23_ListingNewestFirst ==
    /\ (query.op = "logs" /\ query.out.table /\ query.count >= 0) =>
        LET rows == query.out.rows
            from == Listable(logDir, query.recent)
        IN  /\ \A i, j \in DOMAIN rows :
                   i < j => logDir[rows[i]].mtime >= logDir[rows[j]].mtime
            /\ \A i, j \in DOMAIN rows : rows[i] = rows[j] => i = j
            /\ Range(rows) \subseteq from
            /\ Len(rows) = IF query.count < Cardinality(from)
                           THEN query.count ELSE Cardinality(from)
            /\ \A n \in from \ Range(rows) : \A i \in DOMAIN rows :
                   logDir[rows[i]].mtime >= logDir[n].mtime
    /\ (query.op = "logs" /\ ~query.out.table) => DOMAIN logDir = {}
    /\ (query.op = "statistics" /\ DOMAIN logDir # {}) =>
            \A n \in DOMAIN logDir :
                query.manager.last_session >= logDir[n].mtime

\* Three records of three different days were listed with a count of two:
\* the two newest are shown, the newer one first, and the oldest is left
\* out.
C23_Witness ==
    /\ query.op = "logs"
    /\ query.count = 2
    /\ ~query.recent
    /\ Cardinality(DOMAIN logDir) = 3
    /\ Cardinality({logDir[n].mtime : n \in DOMAIN logDir}) = 3
    /\ Len(query.out.rows) = 2
    /\ logDir[query.out.rows[1]].mtime > logDir[query.out.rows[2]].mtime
    /\ \E n \in DOMAIN logDir :
           logDir[n].mtime < logDir[query.out.rows[2]].mtime

\* ------------------------------------------------ claims on the statistics

\* The record was modified less than `days` days before the day `now`.
ModifiedWithin(rec, now, days) == now - rec.mtime < days

\* The number of the session records in the log directory that were modified
\* within the last thirty days.
RecentRecordCount ==
    Cardinality({n \in DOMAIN logDir : ModifiedWithin(logDir[n], PruneDay, 30)})

\* C24: after any sequence of appends and prunes, statistics reports
\* totalCount equal to the number of session records now in the log
\* directory (archived and deleted records are not counted) and recentCount
\* equal to the number of those modified within the last 30 days, hence
\* 0 <= recentCount <= totalCount; SessionUpdater.get_session_statistics
\* and WorkflowManager._get_session_statistics agree on both numbers.
C24_StatisticsCountTheDirectory ==
    query.op = "statistics" =>
        /\ query.updater.total_sessions = Cardinality(DOMAIN logDir)
        /\ query.updater.recent_sessions = RecentRecordCount
        /\ 0 <= query.updater.recent_sessions
        /\ query.updater.recent_sessions <= query.updater.total_sessions
        /\ query.manager.total_sessions = query.updater.total_sessions
        /\ query.manager.recent_sessions = query.updater.recent_sessions

\* The statistics are read after a log was appended and a prune archived
\* another: the archived log is not counted, and of the logs counted one is
\* exactly thirty days old and not recent.
C24_Witness ==
    /\ query.op = "statistics"
    /\ logsAppended > 0
    /\ prpc = "returned"
    /\ pruneResult.archived > 0
    /\ archive # NoFiles
    /\ \E n \in DOMAIN logDir : logDir[n].mtime = PruneDay - 30
    /\ query.updater.total_sessions = Cardinality(DOMAIN logDir)
    /\ query.updater.recent_sessions >= 1
    /\ query.updater.recent_sessions < query.updater.total_sessions

\* ------------------------------------------ claims on concurrent pruning

\* The records that were older than the retention when the two calls began.
ExpiredAtStart ==
    {n \in DOMAIN logDirBefore :
        PruneDay - logDirBefore[n].mtime > RetentionDays}

\* The records the two calls count as deleted or archived, taken together.
HandledCount ==
    cResult[1].cleaned + cResult[1].archived
        + cResult[2].cleaned + cResult[2].archived

\* C27: when two cleanup_old_logs invocations run concurrently on the same
\* log directory, in every interleaving both return a result (no exception
\* escapes either call), each expired record is archived or deleted exactly
\* once overall, and an invocation that finds a record already removed by
\* the other reports it as an entry in its errors list.
C27_ConcurrentPrunesBothReturn ==
    /\ \A p \in CleanupProcs : cpc[p] # "raised"
    /\ HandledCount = Cardinality(ExpiredAtStart \ DOMAIN logDir)
    /\ (\A p \in CleanupProcs : cpc[p] = "returned") =>
        \A n \in ExpiredAtStart :
            \/ n \notin DOMAIN logDir
            \/ \E p \in CleanupProcs :
                   ErrorEntry(n, "failed") \in Range(cResult[p].errors)
    /\ \A p \in CleanupProcs : \A n \in LogNames :
           ErrorEntry(n, "gone") \in Range(cResult[p].errors) =>
               n \in ExpiredAtStart \ DOMAIN logDir

\* ------------------------------------------- claims on repeated pruning

\* The session records of the log directory that are older than the
\* retention on the day of the prune.
ExpiredRecords ==
    {n \in DOMAIN logDir : PruneDay - logDir[n].mtime > RetentionDays}

\* The names of the records that are in the archive.
ArchivedNames == {k[2] : k \in DOMAIN archive}

\* C28: pruning is idempotent and clears the maintenance flag: after
\* cleanup_old_logs returns with an empty errors list (clock and policy held
\* fixed), no expired record remains in the log directory, so an immediately
\* repeated cleanup_old_logs returns cleaned=0, archived=0, errors=[] and the
\* maintenance status reports old_logs_count=0 and log_cleanup_needed=false;
\* archived records are never picked up again by a later prune.
C28_PruneIsIdempotent ==
    /\ (prpc = "returned" /\ pruneResult.errors = <<>>) =>
            ExpiredRecords = {}
    /\ (prpc = "returned" /\ pruneCalls >= 2 /\ previousPrune.errors = <<>>) =>
            pruneResult = NoPruneResult
    /\ (query.op = "maintenance" /\ query.afterPrune) =>
            /\ query.status.old_logs_count = 0
            /\ query.status.log_cleanup_needed = FALSE
    /\ prpc = "loop" => Range(oldLogs) \cap ArchivedNames = {}

\* A prune archived a record without an error, the prune made right after
\* it returned zeros and an empty errors list, and the maintenance status
\* read then reports no old log.
C28_Witness ==
    /\ prpc = "returned"
    /\ pruneCalls = 2
    /\ previousPrune.archived > 0
    /\ previousPrune.errors = <<>>
    /\ pruneResult = NoPruneResult
    /\ archive # NoFiles
    /\ query.op = "maintenance"
    /\ query.afterPrune
    /\ query.status.old_logs_count = 0

====
